---- MODULE Spec2Model ----
(***************************************************************************)
(* Realtime chat synchronisation and membership engine of                  *)
(* instant-chat-reborn: the backing store (chats, chat_members and their   *)
(* row-level policies), the find_or_create_personal_chat function, the     *)
(* client commands that create, leave and delete chats, the chat directory *)
(* with its realtime handlers, the notification centre, the chat window    *)
(* with its composer, message menu and message log, and the message        *)
(* subscription of a chat view.                                            *)
(***************************************************************************)
EXTENDS Integers, Sequences, FiniteSets, Bags, TLC

\* ------------------------------------------------------------------ bounds
\* Chat ids 1..MaxChats can be handed out by the store.
MaxChats == 5

\* Clicks on user rows in a new-chat dialog before it is submitted.
MaxClicks == 2

\* Realtime chat events received by the directory and not yet handled.
MaxEvents == 2

\* fetchChats (fetchNotifications) responses on their way at one time.
MaxInFlight == 1
\* Requests of one kind in flight where responses may overtake one another.
MaxFetches == 2

\* Deltas of one drawn set of per-chat histories.
MaxDeltas == 3

\* Notifications the viewer receives.
MaxNotifs == 2

\* markAsRead calls awaiting the store at one time.
MaxMarks == 2

\* Messages sent.
MaxMsgs == 3

\* Requests sent to the store's interface directly.
MaxRequests == 3

\* Messages deleted from the open chat.
MaxRemovals == 1

\* Characters typed into the composer.
MaxInput == 2

\* Files selected in the composer.
MaxFiles == 2

\* Calls to the store the chat windows make in all.
MaxCalls == 6

\* Events the channel of a chat's message topic delivers.
MaxStream == 4

\* Instants created_at of a message row can take.
MaxStamp == 2

\* Instants the clock of a device can show.
MaxTime == 7

\* fetchNotifications: .limit(50).
FeedLimit == 50

\* ------------------------------------------------------------------- data
Users == {"u1", "u2", "u3"}

UserOrder == <<"u1", "u2", "u3">>

\* The users whose client is running; the others only hold a profile.
Online == {"u1", "u2"}

\* The user whose chat directory and notification centre are followed.
Viewer == "u1"

VARIABLES
    chats,        \* public.chats: chat id -> row
    members,      \* public.chat_members: bag of rows [chat_id, user_id, role]
    nextChatId,   \* next id gen_random_uuid() hands out
    pc,           \* per user: the client command in flight
    rets,         \* observer: per unordered pair, <<caller, id returned>> of its RpcCalls
    lateCreate,   \* observer: pairs for which a call after the first inserted rows
    held,         \* ChatList: the chats state, a list of entries
    showArchived, \* ChatList: the view selected, active (FALSE) or archived (TRUE)
    chatEvents,   \* chats-changes channel: events received, not yet handled
    fetches,      \* ChatList: responses of fetchChats calls still on their way
    pending,      \* per chat: the deltas of a drawn history not yet delivered
    start,        \* observer: the list and the histories a drawn run started from
    applied,      \* observer: the chat ids in the order their deltas were delivered
    notifs,       \* public.notifications of the viewer: id -> is_read
    feed,         \* NotificationCenter: the notifications state
    unreadCount,  \* NotificationCenter: the unreadCount state
    marking,      \* NotificationCenter: markAsRead calls awaiting the store
    notifFetches, \* NotificationCenter: responses of fetchNotifications on their way
    msgs,         \* public.messages: list of rows [id, chat_id, sender_id]
    clock,        \* the instant new Date() last returned
    menu,         \* observer: what the last attempt in a chat window met
    storeCalls,   \* observer: number of calls clients made to the store
    subscribed,   \* useRealtimeMessages: the channel of the chat's topic is kept
    delivered,    \* observer: number of events the channel has delivered
    awaiting,     \* useRealtimeMessages: handlers awaiting the sender's profile
    invoked,      \* observer: the callbacks invoked, in the order of the calls
    messages,     \* ChatWindow: the messages state of the open chat
    messageFetches, \* ChatWindow: responses of fetchMessages still on their way
    deviceClock,  \* per online user: what new Date() last returned on their device
    visibilityState, \* document.visibilityState of the viewer's page
    tracking,     \* useOnlineStatus: the effect is set up, its listeners registered
    profile,      \* public.profiles, the viewer's row: is_online, and last_seen as
                  \* the list of its value, empty when the column is null
    presencePending, \* profile updates of useOnlineStatus sent and not yet applied
    windowChatId, \* ChatWindow: the chatId prop, the chat the window shows
    newMessage,   \* ChatWindow: the newMessage state, the text in the composer
    selectedFiles, \* ChatWindow: the selectedFiles state, as the list of the files
    chatsChannel  \* chats-changes channel: "joined", or why it receives nothing

storeVars == <<chats, members, nextChatId, pc, rets, lateCreate>>

dirVars == <<held, showArchived, chatEvents, fetches>>

convVars == <<pending, start, applied>>

notifVars == <<notifs, feed, unreadCount, marking, notifFetches>>

msgVars == <<msgs, clock, menu, storeCalls>>

streamVars == <<subscribed, delivered, awaiting, invoked, messages, messageFetches>>

deviceVars == <<deviceClock, visibilityState, tracking, profile, presencePending>>

sessionVars == <<windowChatId, newMessage, selectedFiles, chatsChannel>>

vars == <<storeVars, dirVars, convVars, notifVars, msgVars, streamVars, deviceVars,
          sessionVars>>

Idle == [op |-> "idle"]

\* createPersonalChat holding what find_or_create_personal_chat returned.
RpcDone(o, c, st) == [op |-> "rpcDone", other |-> o, id |-> c, status |-> st]

Pairs == {p \in SUBSET Users : Cardinality(p) = 2}

\* null of a column or an argument.
Null == "null"

\* ------------------------------------------------------------ row helpers
MemberRow(c, u, r) == [chat_id |-> c, user_id |-> u, role |-> r]

\* A chat row as the INSERTs of this repository write it; the three flags and
\* updated_at take their column defaults.
ChatRow(type, isGroup, creator) ==
    [chat_type |-> type, is_group |-> isGroup, created_by |-> creator,
     is_pinned |-> FALSE, is_archived |-> FALSE, updated_at |-> 0]

RECURSIVE SeqToBag(_)
SeqToBag(s) ==
    IF s = <<>> THEN EmptyBag
    ELSE SetToBag({Head(s)}) (+) SeqToBag(Tail(s))

\* Number of chat_members rows of chat c for user u in bag b.
MemberCopies(b, c, u) ==
    CopiesIn(MemberRow(c, u, "admin"), b) + CopiesIn(MemberRow(c, u, "member"), b)

RECURSIVE SumCopies(_, _, _)
SumCopies(b, c, us) ==
    IF us = {} THEN 0
    ELSE LET u == CHOOSE x \in us : TRUE
         IN MemberCopies(b, c, u) + SumCopies(b, c, us \ {u})

\* Number of chat_members rows of chat c.
MemberCount(c) == SumCopies(members, c, Users)

MembersOf(c) == {u \in Users : MemberCopies(members, c, u) > 0}

AdminsOf(c) == {u \in Users : CopiesIn(MemberRow(c, u, "admin"), members) > 0}

IsMember(u, c) == MemberCopies(members, c, u) > 0

\* ------------------------------------------------------- store constraints
\* A variant of the table without the (chat_id, user_id) uniqueness.
UniqueMembership_absent(existing, rows) == TRUE

\* chat_members holds at most one row per (chat_id, user_id): an INSERT that
\* would add a second one fails as a whole.
UniqueMembership(existing, rows) ==
    \A c \in 1..MaxChats : \A u \in Users :
        MemberCopies(existing (+) rows, c, u) <= 1

\* "Users can join chats": INSERT WITH CHECK (user_id = auth.uid()), every row
\* of the statement.
UsersCanJoinChats(caller, rows) ==
    \A r \in BagToSet(rows) : r.user_id = caller

\* "Users can leave chats": DELETE USING (user_id = auth.uid()).
UsersCanLeaveChats(caller, row) == row.user_id = caller

\* INSERT on public.chats by a client: the creator is the caller.
UsersCanCreateChats(caller, row) == row.created_by = caller

\* ------------------------------------------ create_saved_messages_chat()
\* The AFTER INSERT trigger on profiles: a chat_type 'personal' chat created
\* by the new user, who becomes its only member, as admin.
SavedChats ==
    [n \in 1..Len(UserOrder) |-> ChatRow("personal", FALSE, UserOrder[n])]

SavedMembers ==
    SetToBag({MemberRow(n, UserOrder[n], "admin") : n \in 1..Len(UserOrder)})

InitStore ==
    /\ chats = SavedChats
    /\ members = SavedMembers
    /\ nextChatId = Len(UserOrder) + 1
    /\ pc = [u \in Users |-> Idle]
    /\ rets = [p \in Pairs |-> {}]
    /\ lateCreate = {}

\* ------------------------------------- find_or_create_personal_chat(other)
\* A lookup that only sees chats the caller created.
PersonalLookup_ownOnly(caller, other) ==
    {c \in DOMAIN chats :
        /\ MemberCopies(members, c, caller) > 0
        /\ MemberCopies(members, c, other) > 0
        /\ chats[c].chat_type = "personal"
        /\ chats[c].is_group = FALSE
        /\ chats[c].created_by = caller}

\* The SELECT: chats joined with two chat_members rows, one of the caller and
\* one of the other user, chat_type 'personal' and is_group false.
PersonalLookup(caller, other) ==
    {c \in DOMAIN chats :
        /\ MemberCopies(members, c, caller) > 0
        /\ MemberCopies(members, c, other) > 0
        /\ chats[c].chat_type = "personal"
        /\ chats[c].is_group = FALSE}

\* The two rows of the function's INSERT INTO chat_members.
RpcRows(c, caller, other) ==
    SeqToBag(<<MemberRow(c, caller, "admin"), MemberRow(c, other, "member")>>)

\* First statement: the lookup. SELECT ... INTO keeps the first row of several.
RpcLookup(u, o) ==
    /\ pc[u] = Idle
    /\ LET found == PersonalLookup(u, o)
       IN IF found # {}
          THEN \E c \in found : pc' = [pc EXCEPT ![u] = RpcDone(o, c, "ok")]
          ELSE pc' = [pc EXCEPT ![u] = [op |-> "rpc", other |-> o]]
    /\ UNCHANGED <<chats, members, nextChatId, rets, lateCreate>>
    /\ UNCHANGED <<dirVars, convVars, notifVars, msgVars, streamVars, deviceVars, sessionVars>>

\* The INSERTs and the commit. The function runs as its definer, so the
\* row-level policies do not apply; a constraint violation aborts it.
RpcInsert(u) ==
    /\ pc[u].op = "rpc"
    /\ nextChatId <= MaxChats
    /\ LET o == pc[u].other
           c == nextChatId
           rows == RpcRows(c, u, o)
       IN IF UniqueMembership(members, rows)
          THEN /\ chats' = chats @@ (c :> ChatRow("personal", FALSE, u))
               /\ members' = members (+) rows
               /\ nextChatId' = nextChatId + 1
               /\ pc' = [pc EXCEPT ![u] = RpcDone(o, c, "ok")]
          ELSE /\ pc' = [pc EXCEPT ![u] = RpcDone(o, 0, "error")]
               /\ UNCHANGED <<chats, members, nextChatId>>
    /\ UNCHANGED <<rets, lateCreate>>
    /\ UNCHANGED <<dirVars, convVars, notifVars, msgVars, streamVars, deviceVars, sessionVars>>

\* The whole function as one transaction that no other call overlaps.
RpcCall(u, o) ==
    /\ pc[u] = Idle
    /\ LET found == PersonalLookup(u, o)
           c == nextChatId
           rows == RpcRows(c, u, o)
           p == {u, o}
       IN /\ IF found # {}
             THEN /\ \E e \in found :
                        /\ pc' = [pc EXCEPT ![u] = RpcDone(o, e, "ok")]
                        /\ rets' = IF p \in Pairs THEN [rets EXCEPT ![p] = @ \cup {<<u, e>>}] ELSE rets
                  /\ UNCHANGED <<chats, members, nextChatId>>
             ELSE /\ nextChatId <= MaxChats
                  /\ IF UniqueMembership(members, rows)
                     THEN /\ chats' = chats @@ (c :> ChatRow("personal", FALSE, u))
                          /\ members' = members (+) rows
                          /\ nextChatId' = nextChatId + 1
                          /\ pc' = [pc EXCEPT ![u] = RpcDone(o, c, "ok")]
                          /\ rets' = IF p \in Pairs THEN [rets EXCEPT ![p] = @ \cup {<<u, c>>}] ELSE rets
                     ELSE /\ pc' = [pc EXCEPT ![u] = RpcDone(o, 0, "error")]
                          /\ UNCHANGED <<chats, members, nextChatId, rets>>
          /\ lateCreate' =
                IF p \in Pairs /\ rets[p] # {} /\ (chats' # chats \/ members' # members)
                THEN lateCreate \cup {p} ELSE lateCreate
    /\ UNCHANGED <<dirVars, convVars, notifVars, msgVars, streamVars, deviceVars, sessionVars>>

\* createPersonalChat after the call returned: the toast and onChatCreated.
createPersonalChatDone(u) ==
    /\ pc[u].op = "rpcDone"
    /\ pc' = [pc EXCEPT ![u] = Idle]
    /\ UNCHANGED <<chats, members, nextChatId, rets, lateCreate>>
    /\ UNCHANGED <<dirVars, convVars, notifVars, msgVars, streamVars, deviceVars, sessionVars>>

\* ------------------------------------------------------- NewChatDialog
\* handleUserSelect / toggleUserSelection: a click removes a selected id and
\* appends an unselected one.
handleUserSelect(sel, userId) ==
    IF \E i \in 1..Len(sel) : sel[i] = userId
    THEN SelectSeq(sel, LAMBDA x : x # userId)
    ELSE Append(sel, userId)

\* The selections a dialog of user u can hold after at most n clicks; the rows
\* it lists are the profiles other than u (neq('id', user.id)).
RECURSIVE Selections(_, _)
Selections(u, n) ==
    IF n = 0 THEN {<<>>}
    ELSE LET prev == Selections(u, n - 1)
         IN prev \cup {handleUserSelect(s, x) : s \in prev, x \in Users \ {u}}

RECURSIVE MemberRowsOf(_, _)
MemberRowsOf(c, sel) ==
    IF sel = <<>> THEN <<>>
    ELSE <<MemberRow(c, Head(sel), "member")>> \o MemberRowsOf(c, Tail(sel))

\* createGroup, first store call: the chats row. A missing name or an empty
\* selection returns before any call.
createGroupChat(u, sel, isPublicGroup) ==
    /\ pc[u] = Idle
    /\ sel # <<>>
    /\ nextChatId <= MaxChats
    /\ LET row == ChatRow(IF isPublicGroup THEN "channel" ELSE "group", TRUE, u)
       IN /\ UsersCanCreateChats(u, row)
          /\ chats' = chats @@ (nextChatId :> row)
    /\ pc' = [pc EXCEPT ![u] = [op |-> "createGroup", chat |-> nextChatId, sel |-> sel]]
    /\ nextChatId' = nextChatId + 1
    /\ UNCHANGED <<members, rets, lateCreate>>
    /\ UNCHANGED <<dirVars, convVars, notifVars, msgVars, streamVars, deviceVars, sessionVars>>

\* createGroup, second store call: one INSERT of the creator's admin row and
\* a member row per selected user. A rejected INSERT adds no row; the chat row
\* of the first call stays.
createGroupMembers(u) ==
    /\ pc[u].op = "createGroup"
    /\ LET c == pc[u].chat
           rows == SeqToBag(<<MemberRow(c, u, "admin")>> \o MemberRowsOf(c, pc[u].sel))
       IN members' = IF UsersCanJoinChats(u, rows) /\ UniqueMembership(members, rows)
                     THEN members (+) rows
                     ELSE members
    /\ pc' = [pc EXCEPT ![u] = Idle]
    /\ UNCHANGED <<chats, nextChatId, rets, lateCreate>>
    /\ UNCHANGED <<dirVars, convVars, notifVars, msgVars, streamVars, deviceVars, sessionVars>>

\* createChat of the earlier dialog, first store call: the chats row, with
\* chat_type left to its default 'personal'.
createChatChat(u, sel) ==
    /\ pc[u] = Idle
    /\ sel # <<>>
    /\ nextChatId <= MaxChats
    /\ LET row == ChatRow("personal", Len(sel) > 1, u)
       IN /\ UsersCanCreateChats(u, row)
          /\ chats' = chats @@ (nextChatId :> row)
    /\ pc' = [pc EXCEPT ![u] = [op |-> "createChatSelf", chat |-> nextChatId, sel |-> sel]]
    /\ nextChatId' = nextChatId + 1
    /\ UNCHANGED <<members, rets, lateCreate>>
    /\ UNCHANGED <<dirVars, convVars, notifVars, msgVars, streamVars, deviceVars, sessionVars>>

\* createChat, second store call: the creator's admin row.
createChatSelf(u) ==
    /\ pc[u].op = "createChatSelf"
    /\ LET rows == SeqToBag(<<MemberRow(pc[u].chat, u, "admin")>>)
       IN IF UsersCanJoinChats(u, rows) /\ UniqueMembership(members, rows)
          THEN /\ members' = members (+) rows
               /\ pc' = [pc EXCEPT ![u] = [op |-> "createChatOthers", chat |-> pc[u].chat, sel |-> pc[u].sel]]
          ELSE /\ members' = members
               /\ pc' = [pc EXCEPT ![u] = Idle]
    /\ UNCHANGED <<chats, nextChatId, rets, lateCreate>>
    /\ UNCHANGED <<dirVars, convVars, notifVars, msgVars, streamVars, deviceVars, sessionVars>>

\* createChat, third store call: the member rows of the selected users.
createChatOthers(u) ==
    /\ pc[u].op = "createChatOthers"
    /\ LET rows == SeqToBag(MemberRowsOf(pc[u].chat, pc[u].sel))
       IN members' = IF UsersCanJoinChats(u, rows) /\ UniqueMembership(members, rows)
                     THEN members (+) rows
                     ELSE members
    /\ pc' = [pc EXCEPT ![u] = Idle]
    /\ UNCHANGED <<chats, nextChatId, rets, lateCreate>>
    /\ UNCHANGED <<dirVars, convVars, notifVars, msgVars, streamVars, deviceVars, sessionVars>>

\* ------------------------------------------------------ leaving a chat
\* DELETE FROM chat_members WHERE chat_id = c AND user_id = u, as user u.
LeaveRows(u, c) ==
    LET gone == {r \in BagToSet(members) :
                    r.chat_id = c /\ r.user_id = u /\ UsersCanLeaveChats(u, r)}
    IN [r \in BagToSet(members) \ gone |-> members[r]]

\* ChatList.deleteChat: the entry of the chat list's menu, on any listed chat.
deleteChat(u, c) ==
    /\ pc[u] = Idle
    /\ c \in DOMAIN chats
    /\ IsMember(u, c)
    /\ members' = LeaveRows(u, c)
    /\ UNCHANGED <<chats, nextChatId, pc, rets, lateCreate>>
    /\ UNCHANGED <<dirVars, convVars, notifVars, msgVars, streamVars, deviceVars, sessionVars>>

\* ChatContextMenu.handleLeaveChat: offered on chats with is_group.
handleLeaveChat(u, c) ==
    /\ pc[u] = Idle
    /\ c \in DOMAIN chats
    /\ IsMember(u, c)
    /\ chats[c].is_group
    /\ members' = LeaveRows(u, c)
    /\ UNCHANGED <<chats, nextChatId, pc, rets, lateCreate>>
    /\ UNCHANGED <<dirVars, convVars, notifVars, msgVars, streamVars, deviceVars, sessionVars>>

\* The client parts not mounted: what their state is before they are used.
DirIdle ==
    /\ held = <<>>
    /\ showArchived = FALSE
    /\ chatEvents = <<>>
    /\ fetches = <<>>

ConvIdle ==
    /\ pending = <<>>
    /\ start = [held |-> <<>>, pending |-> <<>>]
    /\ applied = <<>>

NotifIdle ==
    /\ notifs = <<>>
    /\ feed = <<>>
    /\ unreadCount = 0
    /\ marking = <<>>
    /\ notifFetches = <<>>

MsgIdle ==
    /\ msgs = <<>>
    /\ clock = 0
    /\ menu = [op |-> "none"]
    /\ storeCalls = 0

StreamIdle ==
    /\ subscribed = FALSE
    /\ delivered = 0
    /\ awaiting = {}
    /\ invoked = <<>>
    /\ messages = <<>>
    /\ messageFetches = <<>>

DeviceIdle ==
    /\ deviceClock = [u \in Online |-> 0]
    /\ visibilityState = "visible"
    /\ tracking = FALSE
    /\ profile = [is_online |-> FALSE, last_seen |-> <<>>]
    /\ presencePending = <<>>

\* The window shows the first shared chat, its composer empty; the chats
\* channel is joined.
SessionIdle ==
    /\ windowChatId = Len(UserOrder) + 1
    /\ newMessage = <<>>
    /\ selectedFiles = <<>>
    /\ chatsChannel = "joined"

\* --------------------------------------------- a store with shared chats
\* The store after u2 called find_or_create_personal_chat(u1) and u1 called
\* find_or_create_personal_chat(u3); updated_at is the instant of creation.
FirstShared == Len(UserOrder) + 1

SeedChats ==
    [c \in 1..(FirstShared + 1) |->
        [(IF c < FirstShared THEN SavedChats[c]
          ELSE IF c = FirstShared THEN ChatRow("personal", FALSE, "u2")
          ELSE ChatRow("personal", FALSE, "u1")) EXCEPT !.updated_at = c]]

SeedMembers ==
    SavedMembers (+) RpcRows(FirstShared, "u2", "u1")
                 (+) RpcRows(FirstShared + 1, "u1", "u3")

SeedStore ==
    /\ chats = SeedChats
    /\ members = SeedMembers
    /\ nextChatId = FirstShared + 2
    /\ pc = [u \in Users |-> Idle]
    /\ rets = [p \in Pairs |-> {}]
    /\ lateCreate = {}

\* ------------------------------------------------------------- ChatList
\* The columns fetchChats selects of a chats row, and unread_count: 0.
Entry(c, row) ==
    [id |-> c, chat_type |-> row.chat_type, is_group |-> row.is_group,
     is_pinned |-> row.is_pinned, is_archived |-> row.is_archived,
     updated_at |-> row.updated_at, unread_count |-> 0]

\* payload.new of a realtime event on chats: the whole row.
Payload(c, row) == [id |-> c] @@ row

\* { ...chat, ...updatedChat }
Merge(chat, updatedChat) ==
    [f \in DOMAIN chat \cup DOMAIN updatedChat |->
        IF f \in DOMAIN updatedChat THEN updatedChat[f] ELSE chat[f]]

\* A variant of the handler that also moves the merged entry to the top.
handleChatUpdate_toFront(list, updatedChat) ==
    SelectSeq([i \in 1..Len(list) |-> Merge(list[i], updatedChat)],
              LAMBDA chat : chat.id = updatedChat.id)
    \o SelectSeq(list, LAMBDA chat : chat.id # updatedChat.id)

\* A variant of the handler that puts the chat of the event on top of the list.
handleChatUpdate_prepend(list, updatedChat) == <<updatedChat>> \o list

\* handleChatUpdate: prev.map, the entry of the same id merged in place.
handleChatUpdate(list, updatedChat) ==
    [i \in 1..Len(list) |->
        IF list[i].id = updatedChat.id THEN Merge(list[i], updatedChat) ELSE list[i]]

\* handleChatDelete: prev.filter.
handleChatDelete(list, chatId) ==
    SelectSeq(list, LAMBDA chat : chat.id # chatId)

\* useRealtimeChats: INSERT and UPDATE go to onChatUpdate with payload.new,
\* DELETE to onChatDelete with payload.old.id.
useRealtimeChats(list, payload) ==
    IF payload.eventType = "DELETE"
    THEN handleChatDelete(list, payload.old.id)
    ELSE handleChatUpdate(list, payload.new)

\* The comparator of chatList.sort: a negative result.
Before(a, b) ==
    \/ a.is_pinned /\ ~b.is_pinned
    \/ a.is_pinned = b.is_pinned /\ a.updated_at > b.updated_at

RECURSIVE InsertSorted(_, _)
InsertSorted(x, s) ==
    IF s = <<>> THEN <<x>>
    ELSE IF Before(x, Head(s)) THEN <<x>> \o s
    ELSE <<Head(s)>> \o InsertSorted(x, Tail(s))

\* chatList.sort: pinned first, then updated_at descending; stable.
RECURSIVE SortChats(_)
SortChats(s) ==
    IF s = <<>> THEN <<>>
    ELSE InsertSorted(s[Len(s)], SortChats(SubSeq(s, 1, Len(s) - 1)))

RECURSIVE IdSeq(_)
IdSeq(S) ==
    IF S = {} THEN <<>>
    ELSE LET m == CHOOSE x \in S : \A y \in S : x <= y
         IN <<m>> \o IdSeq(S \ {m})

\* fetchChats, the query and what is made of its rows: the chats of the
\* membership rows of u, those of the selected view, sorted.
fetchChatsQuery(store, u, archived) ==
    LET ids == IdSeq({c \in DOMAIN store : IsMember(u, c)})
        rows == [i \in 1..Len(ids) |-> Entry(ids[i], store[ids[i]])]
    IN SortChats(SelectSeq(rows, LAMBDA chat : chat.is_archived = archived))

RemoveAt(s, i) == SubSeq(s, 1, i - 1) \o SubSeq(s, i + 1, Len(s))

\* A fetchChats response arrives: setChats(chatList).
fetchChatsDone(i) ==
    /\ i \in 1..Len(fetches)
    /\ held' = fetches[i]
    /\ fetches' = RemoveAt(fetches, i)
    /\ UNCHANGED <<showArchived, chatEvents>>
    /\ UNCHANGED <<storeVars, convVars, notifVars, msgVars, streamVars, deviceVars, sessionVars>>

\* The two view buttons: setShowArchived(v); the effect on [user, showArchived]
\* calls fetchChats when the value changed.
setShowArchived(v) ==
    /\ v # showArchived
    /\ Len(fetches) < MaxInFlight
    /\ showArchived' = v
    /\ fetches' = Append(fetches, fetchChatsQuery(chats, Viewer, v))
    /\ UNCHANGED <<held, chatEvents>>
    /\ UNCHANGED <<storeVars, convVars, notifVars, msgVars, streamVars, deviceVars, sessionVars>>

\* The chats channel hands the oldest event received to its callback.
deliverChatEvent ==
    /\ chatEvents # <<>>
    /\ held' = useRealtimeChats(held, Head(chatEvents))
    /\ chatEvents' = Tail(chatEvents)
    /\ UNCHANGED <<showArchived, fetches>>
    /\ UNCHANGED <<storeVars, convVars, notifVars, msgVars, streamVars, deviceVars, sessionVars>>

\* "Users can update chats they are admins of": UPDATE USING.
AdminsCanUpdateChats(caller, c) == c \in DOMAIN chats /\ caller \in AdminsOf(c)

\* "Users can view chats they are members of": who receives a chat's events.
MembersCanViewChats(u, c) == IsMember(u, c)

\* The value a menu of user u toggles from: the chat prop of the viewer's held
\* list; another client's own list is not followed, it may show either value.
MenuValues(u, c, field) ==
    IF u = Viewer
    THEN {~held[i][field] : i \in {j \in 1..Len(held) : held[j].id = c}}
    ELSE IF IsMember(u, c) THEN BOOLEAN ELSE {}

\* An UPDATE of one flag of chat c by user u's menu, then onUpdate: the store
\* changes the row if the policy lets it, emits the event to the viewer, and
\* the viewer's own menu calls fetchChats. A filtered UPDATE is no error.
MenuUpdate(u, c, field, v) ==
    /\ Len(chatEvents) < MaxEvents
    /\ u = Viewer => Len(fetches) < MaxInFlight
    /\ LET allowed == AdminsCanUpdateChats(u, c)
           after == IF allowed THEN [chats EXCEPT ![c][field] = v] ELSE chats
       IN /\ chats' = after
          /\ chatEvents' =
                IF allowed /\ MembersCanViewChats(Viewer, c) /\ chatsChannel = "joined"
                THEN Append(chatEvents,
                            [eventType |-> "UPDATE", new |-> Payload(c, after[c])])
                ELSE chatEvents
          /\ fetches' =
                IF u = Viewer
                THEN Append(fetches, fetchChatsQuery(after, Viewer, showArchived))
                ELSE fetches
    /\ UNCHANGED <<held, showArchived>>
    /\ UNCHANGED <<members, nextChatId, pc, rets, lateCreate>>
    /\ UNCHANGED <<convVars, notifVars, msgVars, streamVars, deviceVars, sessionVars>>

\* ChatContextMenu.handlePinChat on a chat the viewer also holds.
handlePinChat(u, c) ==
    /\ IsMember(Viewer, c)
    /\ \E v \in MenuValues(u, c, "is_pinned") : MenuUpdate(u, c, "is_pinned", v)

\* ChatContextMenu.handleArchiveChat on a chat the viewer also holds.
handleArchiveChat(u, c) ==
    /\ IsMember(Viewer, c)
    /\ \E v \in MenuValues(u, c, "is_archived") : MenuUpdate(u, c, "is_archived", v)

\* ------------------------------------- deltas delivered in some order
ConvChats == {c \in DOMAIN SeedChats : MemberCopies(SeedMembers, c, Viewer) > 0}

\* The rows a chat can be in after an UPDATE of its is_pinned flag.
ConvRows(c) ==
    {Payload(c, [SeedChats[c] EXCEPT !.is_pinned = p]) : p \in BOOLEAN}

Deltas(c) ==
    {[eventType |-> t, new |-> r] : t \in {"INSERT", "UPDATE"}, r \in ConvRows(c)}
    \cup {[eventType |-> "DELETE", old |-> [id |-> c]]}

\* The histories of n deltas one chat can have: an INSERT comes first, a
\* DELETE last.
RECURSIVE Histories(_, _)
Histories(c, n) ==
    IF n = 0 THEN {<<>>}
    ELSE {Append(h, d) : h \in Histories(c, n - 1),
                         d \in {x \in Deltas(c) : x.eventType # "INSERT"}}
         \cup {<<d>> : d \in {x \in Deltas(c) : n = 1}}

ValidHistory(h) ==
    \A i \in 1..Len(h) :
        /\ h[i].eventType = "INSERT" => i = 1
        /\ h[i].eventType = "DELETE" => i = Len(h)

HistoriesUpTo(c, n) ==
    UNION {{h \in Histories(c, k) : ValidHistory(h)} : k \in 0..n}

\* The sets of per-chat histories of the chats in S, of at most n deltas in all.
RECURSIVE HistorySets(_, _)
HistorySets(S, n) ==
    IF S = {} THEN {<<>>}
    ELSE LET c == CHOOSE x \in S : TRUE
         IN UNION {{(c :> h) @@ f : f \in HistorySets(S \ {c}, n - Len(h))} :
                      h \in HistoriesUpTo(c, n)}

ConvHistories == HistorySets(ConvChats, MaxDeltas)

\* The list held before the deltas of hs: the fetched list of the chats that
\* exist by then, that is, all but those whose history starts with INSERT.
ConvHeld(hs) ==
    LET old == {c \in ConvChats : hs[c] = <<>> \/ hs[c][1].eventType # "INSERT"}
        ids == IdSeq(old)
    IN SortChats([i \in 1..Len(ids) |-> Entry(ids[i], SeedChats[ids[i]])])

\* The channel delivers the next delta of chat c.
deliverDelta(c) ==
    /\ c \in DOMAIN pending
    /\ pending[c] # <<>>
    /\ held' = useRealtimeChats(held, Head(pending[c]))
    /\ pending' = [pending EXCEPT ![c] = Tail(@)]
    /\ applied' = Append(applied, c)
    /\ UNCHANGED <<start, showArchived, chatEvents, fetches>>
    /\ UNCHANGED <<storeVars, notifVars, msgVars, streamVars, deviceVars, sessionVars>>

\* ---------------------------------------------------- NotificationCenter
Take(s, n) == SubSeq(s, 1, IF Len(s) < n THEN Len(s) ELSE n)

\* fetchNotifications: the viewer's rows, created_at descending, limit 50.
fetchNotificationsQuery(rows) ==
    Take([i \in 1..Len(rows) |->
             [id |-> Len(rows) + 1 - i, is_read |-> rows[Len(rows) + 1 - i]]],
         FeedLimit)

Unread(list) == Len(SelectSeq(list, LAMBDA n : ~n.is_read))

\* A notification row is inserted for the viewer; the subscription's callback
\* calls fetchNotifications.
notificationInserted ==
    /\ Len(notifs) < MaxNotifs
    /\ Len(notifFetches) < MaxInFlight
    /\ notifs' = Append(notifs, FALSE)
    /\ notifFetches' = Append(notifFetches, fetchNotificationsQuery(notifs'))
    /\ UNCHANGED <<feed, unreadCount, marking>>
    /\ UNCHANGED <<storeVars, dirVars, convVars, msgVars, streamVars, deviceVars, sessionVars>>

\* A fetchNotifications response arrives.
fetchNotificationsDone(i) ==
    /\ i \in 1..Len(notifFetches)
    /\ feed' = notifFetches[i]
    /\ unreadCount' = Unread(notifFetches[i])
    /\ notifFetches' = RemoveAt(notifFetches, i)
    /\ UNCHANGED <<notifs, marking>>
    /\ UNCHANGED <<storeVars, dirVars, convVars, msgVars, streamVars, deviceVars, sessionVars>>

\* A click on row i of the feed: !notification.is_read && markAsRead(id); the
\* call starts with its store update.
markAsReadClick(i) ==
    /\ i \in 1..Len(feed)
    /\ ~feed[i].is_read
    /\ Len(marking) < MaxMarks
    /\ marking' = Append(marking, feed[i].id)
    /\ UNCHANGED <<notifs, feed, unreadCount, notifFetches>>
    /\ UNCHANGED <<storeVars, dirVars, convVars, msgVars, streamVars, deviceVars, sessionVars>>

\* markAsRead after its await: the store update was made (ok) or failed; the
\* result is not looked at, the row is mapped to read and the counter lowered.
markAsReadDone(j, ok) ==
    /\ j \in 1..Len(marking)
    /\ LET n == marking[j]
       IN /\ notifs' = IF ok THEN [notifs EXCEPT ![n] = TRUE] ELSE notifs
          /\ feed' = [i \in 1..Len(feed) |->
                        IF feed[i].id = n THEN [feed[i] EXCEPT !.is_read = TRUE]
                        ELSE feed[i]]
    /\ unreadCount' = IF unreadCount - 1 > 0 THEN unreadCount - 1 ELSE 0
    /\ marking' = RemoveAt(marking, j)
    /\ UNCHANGED notifFetches
    /\ UNCHANGED <<storeVars, dirVars, convVars, msgVars, streamVars, deviceVars, sessionVars>>

\* markAllAsRead: the button is rendered while unreadCount > 0.
markAllAsRead(ok) ==
    /\ unreadCount > 0
    /\ notifs' = IF ok THEN [n \in 1..Len(notifs) |-> TRUE] ELSE notifs
    /\ feed' = [i \in 1..Len(feed) |-> [feed[i] EXCEPT !.is_read = TRUE]]
    /\ unreadCount' = 0
    /\ UNCHANGED <<marking, notifFetches>>
    /\ UNCHANGED <<storeVars, dirVars, convVars, msgVars, streamVars, deviceVars, sessionVars>>

\* ------------------------------------------- ChatWindow and message menu
\* A variant of the policy that checks the sender column only.
UsersCanSendMessages_senderOnly(caller, row) == row.sender_id = caller

\* "Users can insert messages in their chats": INSERT WITH CHECK.
UsersCanSendMessages(caller, row) ==
    row.sender_id = caller /\ IsMember(caller, row.chat_id)

\* sendMessage in the open chat c, new Date() returning t: the messages INSERT,
\* then the UPDATE of the chat's updated_at to t, which the update policy of
\* chats filters for a caller who is no admin.
sendMessageAt(u, c, t) ==
    /\ c \in DOMAIN chats
    /\ IsMember(u, c)
    /\ Len(msgs) < MaxMsgs
    /\ LET row == [id |-> Len(msgs) + 1, chat_id |-> c, sender_id |-> u]
       IN msgs' = IF UsersCanSendMessages(u, row) THEN Append(msgs, row) ELSE msgs
    /\ clock' = t
    /\ chats' = IF AdminsCanUpdateChats(u, c)
                THEN [chats EXCEPT ![c].updated_at = t]
                ELSE chats
    /\ storeCalls' = storeCalls + 2
    /\ UNCHANGED menu
    /\ UNCHANGED <<members, nextChatId, pc, rets, lateCreate>>
    /\ UNCHANGED <<dirVars, convVars, notifVars, streamVars>>

\* sendMessage on devices whose clocks agree with each other and with the
\* store's: every reading is later than the one before.
sendMessage(u, c) ==
    /\ sendMessageAt(u, c, clock + 1)
    /\ UNCHANGED <<deviceVars, sessionVars>>

\* sendMessage on the sender's own device: its clock is set to whatever its
\* owner or its time service set it to, and only its own readings are known
\* to follow one another.
sendMessageOwnClock(u, c, t) ==
    /\ t > deviceClock[u]
    /\ sendMessageAt(u, c, t)
    /\ deviceClock' = [deviceClock EXCEPT ![u] = t]
    /\ UNCHANGED <<visibilityState, tracking, profile, presencePending>>
    /\ UNCHANGED sessionVars

\* renderMessage: is_own is message.sender_id === user.id.
IsOwn(u, message) == message.sender_id = u

\* A variant of the menu that renders Edit and Delete on every message.
MessageMenuItems_all(isOwn) == {"reply", "copy", "pin", "save", "edit", "delete"}

\* MessageContextMenu: the items rendered; Edit and Delete only on own messages.
MessageMenuItems(isOwn) ==
    {"reply", "copy", "pin", "save"} \cup (IF isOwn THEN {"edit", "delete"} ELSE {})

\* User u opens the menu of message i of a chat they are in and goes for
\* Delete. Without the item there is nothing to click; with it onDelete runs,
\* which ChatWindow passes as () => {}.
messageMenuDelete(u, i) ==
    /\ i \in 1..Len(msgs)
    /\ IsMember(u, msgs[i].chat_id)
    /\ menu' = [op |-> "delete", user |-> u, msg |-> i,
                outcome |-> IF "delete" \in MessageMenuItems(IsOwn(u, msgs[i]))
                            THEN "invoked" ELSE "denied"]
    /\ UNCHANGED <<msgs, clock, storeCalls>>
    /\ UNCHANGED <<storeVars, dirVars, convVars, notifVars, streamVars, deviceVars, sessionVars>>

\* ------------------------------------- ChatContextMenu.handleDeleteChat
\* "Users can view chat members": SELECT USING, own rows and rows of chats
\* the caller is in.
UsersCanViewChatMembers(caller, row) ==
    row.user_id = caller \/ IsMember(caller, row.chat_id)

\* "Users can view messages in their chats": SELECT USING.
UsersCanViewMessages(caller, row) == IsMember(caller, row.chat_id)

\* "Users can delete their own messages": DELETE USING.
UsersCanDeleteOwnMessages(caller, row) == row.sender_id = caller

\* "Users can delete chats they created": DELETE USING.
UsersCanDeleteChats(caller, c) == chats[c].created_by = caller

\* The chat_members rows DELETE ... WHERE chat_id = c removes for a caller: a
\* DELETE with a WHERE clause reads the rows, so the SELECT policy applies
\* together with the DELETE policy; the other rows are skipped without error.
DeleteMemberRows(u, c) ==
    LET gone == {r \in BagToSet(members) :
                    /\ r.chat_id = c
                    /\ UsersCanViewChatMembers(u, r)
                    /\ UsersCanLeaveChats(u, r)}
    IN [r \in BagToSet(members) \ gone |-> members[r]]

\* The messages DELETE ... WHERE chat_id = c leaves for a caller.
DeleteMessageRows(u, c) ==
    SelectSeq(msgs, LAMBDA m :
        ~(/\ m.chat_id = c
          /\ UsersCanViewMessages(u, m)
          /\ UsersCanDeleteOwnMessages(u, m)))

\* Whether DELETE FROM chats WHERE id = c by caller u removes the row.
ChatRowDeletable(u, c) ==
    /\ c \in DOMAIN chats
    /\ MembersCanViewChats(u, c)
    /\ UsersCanDeleteChats(u, c)

\* chat_members and messages reference the chat: its rows go with it.
CascadeMembers(c) ==
    LET gone == {r \in BagToSet(members) : r.chat_id = c}
    IN [r \in BagToSet(members) \ gone |-> members[r]]

CascadeMessages(c) == SelectSeq(msgs, LAMBDA m : m.chat_id # c)

DeleteChatDone(c, who, st) ==
    [op |-> "deleteChatDone", chat |-> c, creator |-> who, status |-> st]

\* handleDeleteChat from the menu of a listed chat, first store call: the
\* chat_members DELETE. Its result is not looked at.
handleDeleteChatMembers(u, c) ==
    /\ pc[u] = Idle
    /\ c \in DOMAIN chats
    /\ IsMember(u, c)
    /\ members' = DeleteMemberRows(u, c)
    /\ pc' = [pc EXCEPT ![u] = [op |-> "deleteChatMessages", chat |-> c,
                                creator |-> chats[c].created_by]]
    /\ storeCalls' = storeCalls + 1
    /\ UNCHANGED <<chats, nextChatId, rets, lateCreate, msgs, clock, menu>>
    /\ UNCHANGED <<dirVars, convVars, notifVars, streamVars, deviceVars, sessionVars>>

\* Second store call: the messages DELETE. Its result is not looked at.
handleDeleteChatMessages(u) ==
    /\ pc[u].op = "deleteChatMessages"
    /\ msgs' = DeleteMessageRows(u, pc[u].chat)
    /\ pc' = [pc EXCEPT ![u] = [op |-> "deleteChatRow", chat |-> pc[u].chat,
                                creator |-> pc[u].creator]]
    /\ storeCalls' = storeCalls + 1
    /\ UNCHANGED <<chats, members, nextChatId, rets, lateCreate, clock, menu>>
    /\ UNCHANGED <<dirVars, convVars, notifVars, streamVars, deviceVars, sessionVars>>

\* Third store call: the chats DELETE. Only an error of this call (failed:
\* the request did not get through) reaches the catch; a DELETE that the
\* policies leave without rows is no error, and the toast says "chat deleted".
handleDeleteChatRow(u, failed) ==
    /\ pc[u].op = "deleteChatRow"
    /\ LET c == pc[u].chat
       IN IF failed
          THEN /\ pc' = [pc EXCEPT ![u] = DeleteChatDone(c, pc[u].creator, "error")]
               /\ UNCHANGED <<chats, members, msgs>>
          ELSE /\ pc' = [pc EXCEPT ![u] = DeleteChatDone(c, pc[u].creator, "ok")]
               /\ IF ChatRowDeletable(u, c)
                  THEN /\ chats' = [x \in DOMAIN chats \ {c} |-> chats[x]]
                       /\ members' = CascadeMembers(c)
                       /\ msgs' = CascadeMessages(c)
                  ELSE UNCHANGED <<chats, members, msgs>>
    /\ storeCalls' = storeCalls + 1
    /\ UNCHANGED <<nextChatId, rets, lateCreate, clock, menu>>
    /\ UNCHANGED <<dirVars, convVars, notifVars, streamVars, deviceVars, sessionVars>>

\* The toast was shown; the menu is closed.
handleDeleteChatDone(u) ==
    /\ pc[u].op = "deleteChatDone"
    /\ pc' = [pc EXCEPT ![u] = Idle]
    /\ UNCHANGED <<chats, members, nextChatId, rets, lateCreate>>
    /\ UNCHANGED <<dirVars, convVars, notifVars, msgVars, streamVars, deviceVars, sessionVars>>

\* ------------------------------------------------ capability columns
\* chat_members.can_*: the column defaults. No statement of the repository
\* writes or reads these columns, so every membership row carries them.
DefaultFlags ==
    [can_send_messages |-> TRUE, can_add_members |-> FALSE,
     can_pin_messages |-> FALSE, can_delete_messages |-> FALSE]

\* User u opens the menu of message i of a chat they are in and chooses Pin:
\* the item is rendered on every message and runs onPin, which ChatWindow
\* passes as () => {}.
messageMenuPin(u, i) ==
    /\ i \in 1..Len(msgs)
    /\ IsMember(u, msgs[i].chat_id)
    /\ menu' = [op |-> "pin", user |-> u, msg |-> i,
                outcome |-> IF "pin" \in MessageMenuItems(IsOwn(u, msgs[i]))
                            THEN "invoked" ELSE "denied"]
    /\ UNCHANGED <<msgs, clock, storeCalls>>
    /\ UNCHANGED <<storeVars, dirVars, convVars, notifVars, streamVars, deviceVars, sessionVars>>

\* ------------------------------------------ requests sent to the store
\* The tables are exposed to every signed-in user through the store's
\* interface; the row-level policies are what decides on a request, whoever
\* sends it and for whichever chat id.

\* A messages SELECT of the rows of chat c as the store answers it to caller:
\* the rows that "Users can view messages in their chats" lets through.
messagesSelect(caller, c) ==
    SelectSeq(msgs, LAMBDA row : row.chat_id = c /\ UsersCanViewMessages(caller, row))

\* A messages INSERT of one row for chat c with sender_id sender.
messagesInsert(caller, c, sender) ==
    /\ c \in DOMAIN chats
    /\ storeCalls < MaxRequests
    /\ Len(msgs) < MaxMsgs
    /\ LET row == [id |-> Len(msgs) + 1, chat_id |-> c, sender_id |-> sender]
       IN msgs' = IF UsersCanSendMessages(caller, row) THEN Append(msgs, row) ELSE msgs
    /\ storeCalls' = storeCalls + 1
    /\ UNCHANGED <<clock, menu>>
    /\ UNCHANGED <<storeVars, dirVars, convVars, notifVars, streamVars, deviceVars, sessionVars>>

\* A chats UPDATE of one flag of chat c, as handlePinChat and handleArchiveChat
\* send it; a row the policy filters is left as it was, without an error.
chatsUpdate(caller, c, field, v) ==
    /\ c \in DOMAIN chats
    /\ storeCalls < MaxRequests
    /\ chats' = IF AdminsCanUpdateChats(caller, c)
                THEN [chats EXCEPT ![c][field] = v]
                ELSE chats
    /\ storeCalls' = storeCalls + 1
    /\ UNCHANGED <<msgs, clock, menu>>
    /\ UNCHANGED <<members, nextChatId, pc, rets, lateCreate>>
    /\ UNCHANGED <<dirVars, convVars, notifVars, streamVars, deviceVars, sessionVars>>

\* A chat_members INSERT of one row (c, target, role).
chatMembersInsert(caller, c, target, role) ==
    /\ c \in DOMAIN chats
    /\ storeCalls < MaxRequests
    /\ LET rows == SetToBag({MemberRow(c, target, role)})
       IN members' = IF UsersCanJoinChats(caller, rows) /\ UniqueMembership(members, rows)
                     THEN members (+) rows
                     ELSE members
    /\ storeCalls' = storeCalls + 1
    /\ UNCHANGED <<msgs, clock, menu>>
    /\ UNCHANGED <<chats, nextChatId, pc, rets, lateCreate>>
    /\ UNCHANGED <<dirVars, convVars, notifVars, streamVars, deviceVars, sessionVars>>

\* ------------------------------------------------ ChatWindow.sendMessage
\* Texts are lists of characters; the composer's input is drawn from Inputs.
Chars == {" ", "a"}

RECURSIVE SeqsUpTo(_, _)
SeqsUpTo(S, n) ==
    IF n = 0 THEN {<<>>}
    ELSE LET shorter == SeqsUpTo(S, n - 1)
         IN shorter \cup {Append(s, x) : s \in shorter, x \in S}

Inputs == SeqsUpTo(Chars, MaxInput)

\* A variant of trim that returns the text as typed.
trim_asTyped(s) == s

RECURSIVE trimStart(_)
trimStart(s) == IF s # <<>> /\ Head(s) = " " THEN trimStart(Tail(s)) ELSE s

RECURSIVE trimEnd(_)
trimEnd(s) ==
    IF s # <<>> /\ s[Len(s)] = " " THEN trimEnd(SubSeq(s, 1, Len(s) - 1)) ELSE s

\* newMessage.trim()
trim(s) == trimEnd(trimStart(s))

\* !x of a text or a reference: null and the empty text are falsy.
Falsy(x) == x = Null \/ x = <<>>

\* The public URL storage returns for upload number n of a call.
PublicUrl(n) == <<"url", n>>

\* A variant of the loop that inserts the row of a file before its upload.
FileRows_beforeUpload(u, c, content, n, first) ==
    [k \in 1..(n + 1) |->
        [id |-> first + k, chat_id |-> c, sender_id |-> u,
         content |-> IF Falsy(content) THEN Null ELSE content,
         file_url |-> PublicUrl(k)]]

\* The rows of the loop over selectedFiles: one per uploaded file, with
\* content || null and the file's URL.
FileRows(u, c, content, n, first) ==
    [k \in 1..n |->
        [id |-> first + k, chat_id |-> c, sender_id |-> u,
         content |-> IF Falsy(content) THEN Null ELSE content,
         file_url |-> PublicUrl(k)]]

\* Whitespace-only, the empty text included.
Blank(s) == \A i \in 1..Len(s) : s[i] = " "

\* What a call of sendMessage is recorded as: what it was given, the number of
\* selected files whose upload returned, the number of rows of selected files
\* it inserted, whether it ended in its catch block with the toast "send
\* error", and the number of calls to the store it made.
SendRecord(typed, fileUrl, files, uploads, rows, failed, calls) ==
    [op |-> "send", blank |-> (typed = Null \/ Blank(typed)),
     attachment |-> (fileUrl # Null), files |-> files, uploads |-> uploads,
     rows |-> rows, failed |-> failed, calls |-> calls]

\* The body of sendMessage(content, fileUrl) with `files` selected files, of
\* which the first `uploaded` are stored before an upload fails (uploaded =
\* files: none fails); `prior` calls were made by the caller. Each file is
\* uploaded and its row inserted in turn, then the main row is inserted if
\* there is content or a fileUrl, then the chat's updated_at is written. A
\* failed upload or a rejected insert ends the call in its catch block.
sendMessageBody(u, c, typed, content, fileUrl, files, uploaded, prior) ==
    IF Falsy(content) /\ Falsy(fileUrl) /\ files = 0
    THEN /\ menu' = SendRecord(typed, fileUrl, files, 0, 0, FALSE, prior)
         /\ UNCHANGED <<msgs, clock, storeCalls, chats>>
    ELSE LET allowed == UsersCanSendMessages(u, [id |-> 0, chat_id |-> c, sender_id |-> u])
             fileRows == IF allowed THEN FileRows(u, c, content, uploaded, Len(msgs))
                         ELSE <<>>
             thrown == files > 0 /\ (uploaded < files \/ ~allowed)
             main == ~thrown /\ (~Falsy(content) \/ ~Falsy(fileUrl))
             mainRow == [id |-> Len(msgs) + Len(fileRows) + 1, chat_id |-> c,
                         sender_id |-> u, content |-> content, file_url |-> fileUrl]
             done == ~thrown /\ (main => allowed)
             uploadCalls == IF files = 0 THEN 0
                            ELSE IF ~allowed THEN 1
                            ELSE IF uploaded < files THEN uploaded + 1
                            ELSE files
             \* every upload that returned is followed by its insert
             insertCalls == IF files = 0 THEN 0
                            ELSE IF ~allowed THEN (IF uploaded > 0 THEN 1 ELSE 0)
                            ELSE uploaded
             calls == prior + uploadCalls + insertCalls
                         + (IF main THEN 1 ELSE 0) + (IF done THEN 1 ELSE 0)
         IN /\ msgs' = msgs \o fileRows \o (IF main /\ allowed THEN <<mainRow>> ELSE <<>>)
            /\ clock' = IF done THEN clock + 1 ELSE clock
            /\ chats' = IF done /\ AdminsCanUpdateChats(u, c)
                        THEN [chats EXCEPT ![c].updated_at = clock + 1]
                        ELSE chats
            /\ storeCalls' = storeCalls + calls
            /\ menu' = SendRecord(typed, fileUrl, files, insertCalls, Len(fileRows), ~done, calls)

\* handleFormSubmit: sendMessage() with content = newMessage.trim().
handleFormSubmit(u, c, typed, files, uploaded) ==
    /\ c \in DOMAIN chats
    /\ IsMember(u, c)
    /\ Len(msgs) + files + 1 <= MaxMsgs
    /\ storeCalls < MaxCalls
    /\ uploaded \in 0..files
    /\ sendMessageBody(u, c, typed, trim(typed), Null, files, uploaded, 0)
    /\ UNCHANGED <<members, nextChatId, pc, rets, lateCreate>>
    /\ UNCHANGED <<dirVars, convVars, notifVars, streamVars, deviceVars, sessionVars>>

\* uploadVoiceMessage: the recording is uploaded, then sendMessage(null, url,
\* fileName, 'voice') runs, which also sends the files still selected.
uploadVoiceMessage(u, c, stored, files, uploaded) ==
    /\ c \in DOMAIN chats
    /\ IsMember(u, c)
    /\ Len(msgs) + files + 1 <= MaxMsgs
    /\ storeCalls < MaxCalls
    /\ uploaded \in 0..files
    /\ IF stored
       THEN sendMessageBody(u, c, Null, Null, PublicUrl(0), files, uploaded, 1)
       ELSE /\ storeCalls' = storeCalls + 1
            /\ menu' = [op |-> "voice", calls |-> 1]
            /\ UNCHANGED <<msgs, clock, chats>>
    /\ UNCHANGED <<members, nextChatId, pc, rets, lateCreate>>
    /\ UNCHANGED <<dirVars, convVars, notifVars, streamVars, deviceVars, sessionVars>>

\* ------------------------------------------- NewChatDialog.createGroup
\* A variant of the validation that looks at the selection only.
createGroupInvalid_selectionOnly(groupName, sel) == sel = <<>>

\* createGroup: !groupName.trim() || selectedUsers.length === 0.
createGroupInvalid(groupName, sel) == trim(groupName) = <<>> \/ sel = <<>>

\* The toast a command of the dialog left on the screen.
Toast(title, groupName, sel) ==
    [op |-> "toast", title |-> title, blankName |-> Blank(groupName),
     selected |-> Len(sel)]

\* createGroup up to its first INSERT: the validation with its toast, the
\* upload of the group avatar if one is chosen (groupAvatar is "none", or what
\* becomes of the upload, "stored" or "failed"), the chats row. A failed upload
\* ends the call in its catch block. createGroupMembers is the second INSERT.
createGroup(u, groupName, sel, groupAvatar, isPublicGroup) ==
    /\ pc[u] = Idle \/ pc[u].op = "toast"
    /\ storeCalls < MaxCalls
    /\ IF createGroupInvalid(groupName, sel)
       THEN /\ pc' = [pc EXCEPT ![u] = Toast("fill in all fields", groupName, sel)]
            /\ UNCHANGED <<chats, nextChatId, storeCalls>>
       ELSE IF groupAvatar = "failed"
       THEN /\ pc' = [pc EXCEPT ![u] = Toast("creation failed", groupName, sel)]
            /\ storeCalls' = storeCalls + 1
            /\ UNCHANGED <<chats, nextChatId>>
       ELSE /\ nextChatId <= MaxChats
            /\ LET row == ChatRow(IF isPublicGroup THEN "channel" ELSE "group", TRUE, u)
               IN /\ UsersCanCreateChats(u, row)
                  /\ chats' = chats @@ (nextChatId :> row)
            /\ pc' = [pc EXCEPT ![u] = [op |-> "createGroup", chat |-> nextChatId,
                                        sel |-> sel, blankName |-> Blank(groupName)]]
            /\ nextChatId' = nextChatId + 1
            /\ storeCalls' = storeCalls + (IF groupAvatar = "stored" THEN 2 ELSE 1)
    /\ UNCHANGED <<members, rets, lateCreate>>
    /\ UNCHANGED <<msgs, clock, menu>>
    /\ UNCHANGED <<dirVars, convVars, notifVars, streamVars, deviceVars, sessionVars>>

\* ------------------------------------------------- useRealtimeMessages
\* The events of the messages table the channel of the chat's topic carries.
MessageEvents == {"INSERT", "UPDATE", "DELETE"}

\* The callback a handler of the hook ends in.
CallbackOf(eventType) ==
    IF eventType = "INSERT" THEN "onNewMessage"
    ELSE IF eventType = "UPDATE" THEN "onMessageUpdate"
    ELSE "onMessageDelete"

\* A callback invoked for the event delivered as number n; live is whether the
\* channel was still kept at the moment of the call.
Invocation(n, eventType) ==
    [seq |-> n, callback |-> CallbackOf(eventType), live |-> subscribed]

\* The effect of the hook: the channel is created and subscribed.
subscribeMessages ==
    /\ ~subscribed
    /\ delivered = 0
    /\ subscribed' = TRUE
    /\ UNCHANGED <<delivered, awaiting, invoked, messages, messageFetches>>
    /\ UNCHANGED <<storeVars, dirVars, convVars, notifVars, msgVars, deviceVars, sessionVars>>

\* The channel delivers an event and its handler runs up to its first await:
\* the INSERT and UPDATE handlers start the fetch of the sender's profile, the
\* DELETE handler has no await and calls onMessageDelete at once.
receiveMessageEvent(eventType) ==
    /\ subscribed
    /\ delivered < MaxStream
    /\ delivered' = delivered + 1
    /\ IF eventType = "DELETE"
       THEN /\ invoked' = Append(invoked, Invocation(delivered + 1, eventType))
            /\ UNCHANGED awaiting
       ELSE /\ awaiting' = awaiting \cup {[seq |-> delivered + 1, eventType |-> eventType]}
            /\ UNCHANGED invoked
    /\ UNCHANGED <<subscribed, messages, messageFetches>>
    /\ UNCHANGED <<storeVars, dirVars, convVars, notifVars, msgVars, deviceVars, sessionVars>>

\* The profile fetch of handler h returns and the handler calls its callback;
\* nothing in the handler looks at the channel again.
profileFetched(h) ==
    /\ h \in awaiting
    /\ awaiting' = awaiting \ {h}
    /\ invoked' = Append(invoked, Invocation(h.seq, h.eventType))
    /\ UNCHANGED <<subscribed, delivered, messages, messageFetches>>
    /\ UNCHANGED <<storeVars, dirVars, convVars, notifVars, msgVars, deviceVars, sessionVars>>

\* The cleanup of the effect: supabase.removeChannel, channelRef.current = null.
unsubscribeMessages ==
    /\ subscribed
    /\ subscribed' = FALSE
    /\ UNCHANGED <<delivered, awaiting, invoked, messages, messageFetches>>
    /\ UNCHANGED <<storeVars, dirVars, convVars, notifVars, msgVars, deviceVars, sessionVars>>

\* ------------------------------------- ChatWindow: the message log
\* The chat whose window the viewer has open: the first shared chat.
OpenChat == FirstShared

\* A variant of the query without its order clause: the rows as stored.
OrderByCreatedAt_asStored(rows) == rows

\* A row put into a list ordered by created_at, after the rows not later.
RECURSIVE InsertByCreatedAt(_, _)
InsertByCreatedAt(row, sorted) ==
    IF sorted = <<>> THEN <<row>>
    ELSE IF row.created_at < Head(sorted).created_at THEN <<row>> \o sorted
    ELSE <<Head(sorted)>> \o InsertByCreatedAt(row, Tail(sorted))

RECURSIVE OrderRows(_, _)
OrderRows(rows, sorted) ==
    IF rows = <<>> THEN sorted
    ELSE OrderRows(Tail(rows), InsertByCreatedAt(Head(rows), sorted))

\* .order('created_at', { ascending: true })
OrderByCreatedAt(rows) == OrderRows(rows, <<>>)

\* fetchMessages: the rows of the chat the caller may see, ordered.
fetchMessagesQuery(caller, c) == OrderByCreatedAt(messagesSelect(caller, c))

\* A member's message row of the open chat is committed. created_at is now()
\* of the inserting transaction, which can lie before that of a row that was
\* committed earlier.
messageCommittedIn(u, c, at) ==
    /\ c \in DOMAIN chats
    /\ IsMember(u, c)
    /\ Len(msgs) < MaxMsgs
    /\ LET row == [id |-> Len(msgs) + 1, chat_id |-> c, sender_id |-> u,
                   created_at |-> at]
       IN msgs' = IF UsersCanSendMessages(u, row) THEN Append(msgs, row) ELSE msgs
    /\ UNCHANGED <<clock, menu, storeCalls>>
    /\ UNCHANGED <<storeVars, dirVars, convVars, notifVars, streamVars, deviceVars, sessionVars>>

messageCommitted(u, at) == messageCommittedIn(u, OpenChat, at)

\* The window's channel delivers the INSERT event of a committed row; the
\* handler calls fetchMessages, which the store answers from its rows.
handleMessageInsertWithin(limit) ==
    /\ subscribed
    /\ delivered < Len(msgs)
    /\ Len(messageFetches) < limit
    /\ delivered' = delivered + 1
    /\ messageFetches' = Append(messageFetches, fetchMessagesQuery(Viewer, OpenChat))
    /\ UNCHANGED <<subscribed, awaiting, invoked, messages>>
    /\ UNCHANGED <<storeVars, dirVars, convVars, notifVars, msgVars, deviceVars, sessionVars>>

handleMessageInsert == handleMessageInsertWithin(MaxInFlight)

\* A fetchMessages response arrives: setMessages(data).
fetchMessagesDone(i) ==
    /\ i \in 1..Len(messageFetches)
    /\ messages' = messageFetches[i]
    /\ messageFetches' = RemoveAt(messageFetches, i)
    /\ UNCHANGED <<subscribed, delivered, awaiting, invoked>>
    /\ UNCHANGED <<storeVars, dirVars, convVars, notifVars, msgVars, deviceVars, sessionVars>>

\* ---------------------------------------------------- useOnlineStatus
\* new Date().toISOString() of the instant t, as a column value.
toISOString(t) == <<t>>

\* The profile update setOnline sends: is_online true, last_seen null; cause
\* and state are the caller and the page's visibilityState at the call.
setOnline(cause, state) ==
    [cause |-> cause, visible |-> state = "visible",
     is_online |-> TRUE, last_seen |-> <<>>]

\* The profile update setOffline sends: is_online false, last_seen new Date().
setOffline(cause, state, t) ==
    [cause |-> cause, visible |-> state = "visible",
     is_online |-> FALSE, last_seen |-> toISOString(t)]

\* The call is made without being awaited: the update is on its way.
SendPresenceWithin(update, limit) ==
    /\ Len(presencePending) < limit
    /\ presencePending' = Append(presencePending, update)

SendPresence(update) == SendPresenceWithin(update, MaxInFlight)

\* new Date() on the viewer's device for setOffline.
ReadClock(t) ==
    /\ t = deviceClock[Viewer] + 1
    /\ t <= MaxTime
    /\ deviceClock' = [deviceClock EXCEPT ![Viewer] = t]

\* A variant of the interval callback without the look at the page.
HeartbeatSends_always == TRUE

\* The interval callback: if (document.visibilityState === 'visible').
HeartbeatSends == visibilityState = "visible"

\* The effect of the hook runs for the signed-in user: setOnline(), the two
\* listeners and the interval are set up.
mountTracker ==
    /\ ~tracking
    /\ tracking' = TRUE
    /\ UNCHANGED <<visibilityState, deviceClock, profile>>
    /\ SendPresence(setOnline("mount", visibilityState))
    /\ UNCHANGED <<storeVars, dirVars, convVars, notifVars, msgVars, streamVars,
                   sessionVars>>

\* visibilitychange: the page becomes hidden or visible again.
handleVisibilityChangeWithin(limit) ==
    /\ tracking
    /\ visibilityState' = IF visibilityState = "visible" THEN "hidden" ELSE "visible"
    /\ IF visibilityState' = "visible"
       THEN /\ SendPresenceWithin(setOnline("visible", "visible"), limit)
            /\ UNCHANGED deviceClock
       ELSE \E t \in 1..MaxTime :
               ReadClock(t) /\ SendPresenceWithin(setOffline("hidden", "hidden", t), limit)
    /\ UNCHANGED <<tracking, profile>>
    /\ UNCHANGED <<storeVars, dirVars, convVars, notifVars, msgVars, streamVars,
                   sessionVars>>

handleVisibilityChange == handleVisibilityChangeWithin(MaxInFlight)

\* The interval fires, every 30 seconds.
heartbeat ==
    /\ tracking
    /\ IF HeartbeatSends
       THEN SendPresence(setOnline("heartbeat", visibilityState))
       ELSE UNCHANGED presencePending
    /\ UNCHANGED <<visibilityState, tracking, deviceClock, profile>>
    /\ UNCHANGED <<storeVars, dirVars, convVars, notifVars, msgVars, streamVars,
                   sessionVars>>

\* beforeunload: setOffline(), then the page and its listeners are gone.
handleBeforeUnload ==
    /\ tracking
    /\ tracking' = FALSE
    /\ \E t \in 1..MaxTime : ReadClock(t) /\ SendPresence(setOffline("unload", visibilityState, t))
    /\ UNCHANGED <<visibilityState, profile>>
    /\ UNCHANGED <<storeVars, dirVars, convVars, notifVars, msgVars, streamVars,
                   sessionVars>>

\* The cleanup of the effect, when the user changes or the hook unmounts.
cleanupTracker ==
    /\ tracking
    /\ tracking' = FALSE
    /\ \E t \in 1..MaxTime : ReadClock(t) /\ SendPresence(setOffline("teardown", visibilityState, t))
    /\ UNCHANGED <<visibilityState, profile>>
    /\ UNCHANGED <<storeVars, dirVars, convVars, notifVars, msgVars, streamVars,
                   sessionVars>>

\* The store applies an update of the viewer's profile row.
applyPresence(i) ==
    /\ i \in 1..Len(presencePending)
    /\ profile' = [is_online |-> presencePending[i].is_online,
                   last_seen |-> presencePending[i].last_seen]
    /\ presencePending' = RemoveAt(presencePending, i)
    /\ UNCHANGED <<visibilityState, tracking, deviceClock>>
    /\ UNCHANGED <<storeVars, dirVars, convVars, notifVars, msgVars, streamVars,
                   sessionVars>>

\* ------------------------------------- a chat created by another user
\* find_or_create_personal_chat(o) called by u when the two share no chat: the
\* chat row and both membership rows commit together, and the chats channel
\* of the viewer, who can see the new row, receives its INSERT event.
RpcCreateAnnounced(u, o) ==
    /\ pc[u] = Idle
    /\ PersonalLookup(u, o) = {}
    /\ nextChatId <= MaxChats
    /\ Len(chatEvents) < MaxEvents
    /\ LET c == nextChatId
           rows == RpcRows(c, u, o)
           after == chats @@ (c :> ChatRow("personal", FALSE, u))
       IN /\ UniqueMembership(members, rows)
          /\ chats' = after
          /\ members' = members (+) rows
          /\ chatEvents' =
                IF Viewer \in {u, o} /\ chatsChannel = "joined"
                THEN Append(chatEvents,
                            [eventType |-> "INSERT", new |-> Payload(c, after[c])])
                ELSE chatEvents
    /\ nextChatId' = nextChatId + 1
    /\ UNCHANGED <<pc, rets, lateCreate>>
    /\ UNCHANGED <<held, showArchived, fetches>>
    /\ UNCHANGED <<convVars, notifVars, msgVars, streamVars, deviceVars, sessionVars>>

\* ------------------------------------- a message of the open chat deleted
\* DELETE FROM messages WHERE id = (row i) as caller: the row goes if the
\* caller may see it and sent it. The window's channel listens to INSERT and
\* UPDATE only, so the DELETE event of the row calls nothing in the window.
messagesDelete(caller, i) ==
    /\ i \in 1..Len(msgs)
    /\ msgs[i].chat_id = OpenChat
    /\ UsersCanViewMessages(caller, msgs[i])
    /\ UsersCanDeleteOwnMessages(caller, msgs[i])
    /\ storeCalls < MaxRemovals
    /\ storeCalls' = storeCalls + 1
    /\ msgs' = RemoveAt(msgs, i)
    /\ delivered' = IF i <= delivered THEN delivered - 1 ELSE delivered
    /\ UNCHANGED <<clock, menu>>
    /\ UNCHANGED <<subscribed, awaiting, invoked, messages, messageFetches>>
    /\ UNCHANGED <<storeVars, dirVars, convVars, notifVars, deviceVars, sessionVars>>

\* filteredChats of the directory while the search box is empty: the filter
\* looks at the name only, so every held entry is displayed.
filteredChats == held

\* ------------------------------------- names of personal chats
\* The display name of a profile, as the store and the clients build it from
\* first_name and last_name: the user stands for their name.
DisplayName(u) == <<"name", u>>

\* avatar_url of a profile.
AvatarUrl(u) == <<"avatar", u>>

\* The members of chat c other than u.
OtherMembers(c, u) ==
    {r.user_id : r \in {m \in BagToSet(members) : m.chat_id = c /\ m.user_id # u}}

\* The name and avatar_url columns of a chats row: find_or_create_personal_chat
\* writes those of other_user_id, the user the creator opened the chat with;
\* a chat with no second member has a name of its own.
NameColumns(c, row) ==
    LET others == OtherMembers(c, row.created_by)
    IN IF others = {}
       THEN {[name |-> <<"name", "chat">>, avatar_url |-> <<>>]}
       ELSE {[name |-> DisplayName(o), avatar_url |-> AvatarUrl(o)] : o \in others}

\* payload.new with the two columns.
PayloadNamed(c, row) == (CHOOSE n \in NameColumns(c, row) : TRUE) @@ Payload(c, row)

\* The loop of fetchChats over the entries: for an entry that is not a group
\* and of chat_type personal, members[0] of the chat's rows of users other
\* than u gives chat.name and chat.avatar_url; without such a row the columns
\* of the chats row stay.
ResolveOther(u, entry, row) ==
    LET others == OtherMembers(entry.id, u)
        stored == PayloadNamed(entry.id, row)
    IN IF ~entry.is_group /\ entry.chat_type = "personal" /\ others # {}
       THEN LET o == CHOOSE x \in others : TRUE
            IN [name |-> DisplayName(o), avatar_url |-> AvatarUrl(o)] @@ entry
       ELSE [name |-> stored.name, avatar_url |-> stored.avatar_url] @@ entry

\* fetchChats with the name and avatar_url of every entry.
fetchChatsNamed(store, u, archived) ==
    LET list == fetchChatsQuery(store, u, archived)
    IN [i \in 1..Len(list) |-> ResolveOther(u, list[i], store[list[i].id])]

\* handlePinChat or handleArchiveChat by user u from the menu of chat c: the
\* UPDATE, its event with the whole row at the viewer's channel, and
\* onUpdate, the fetchChats of u's own directory.
MenuUpdateNamed(u, c, field) ==
    /\ IsMember(Viewer, c)
    /\ IsMember(u, c)
    /\ Len(chatEvents) < MaxEvents
    /\ u = Viewer => Len(fetches) < MaxInFlight
    /\ LET allowed == AdminsCanUpdateChats(u, c)
           after == IF allowed THEN [chats EXCEPT ![c][field] = ~chats[c][field]]
                    ELSE chats
       IN /\ chats' = after
          /\ chatEvents' =
                IF allowed /\ MembersCanViewChats(Viewer, c) /\ chatsChannel = "joined"
                THEN Append(chatEvents,
                            [eventType |-> "UPDATE", new |-> PayloadNamed(c, after[c])])
                ELSE chatEvents
          /\ fetches' =
                IF u = Viewer
                THEN Append(fetches, fetchChatsNamed(after, Viewer, showArchived))
                ELSE fetches
    /\ UNCHANGED <<held, showArchived>>
    /\ UNCHANGED <<members, nextChatId, pc, rets, lateCreate>>
    /\ UNCHANGED <<convVars, notifVars, msgVars, streamVars, deviceVars, sessionVars>>

\* ------------------------------------- ChatWindow: the composer
\* onChange of the text input: setNewMessage(e.target.value).
typeMessage(typed) ==
    /\ typed # newMessage
    /\ newMessage' = typed
    /\ UNCHANGED <<windowChatId, selectedFiles, chatsChannel>>
    /\ UNCHANGED <<storeVars, dirVars, convVars, notifVars, msgVars, streamVars, deviceVars>>

\* handleFileSelect with one file picked: it is appended to selectedFiles.
handleFileSelect ==
    /\ Len(selectedFiles) < MaxFiles
    /\ selectedFiles' = Append(selectedFiles, Len(selectedFiles) + 1)
    /\ UNCHANGED <<windowChatId, newMessage, chatsChannel>>
    /\ UNCHANGED <<storeVars, dirVars, convVars, notifVars, msgVars, streamVars, deviceVars>>

\* A variant of the end of sendMessage that empties the composer in finally.
ComposerAfter_cleared(failed, kept) == <<>>

\* What newMessage and selectedFiles hold after a call of sendMessage: they
\* are emptied after the updated_at write, a line the catch block skips.
ComposerAfter(failed, kept) == IF failed THEN kept ELSE <<>>

\* The form of the viewer's window is submitted: sendMessage() over the
\* composer's text and files, in the chat the window shows. Of the files the
\* first `uploaded` are stored before an upload fails.
submitComposer(uploaded) ==
    /\ windowChatId \in DOMAIN chats
    /\ uploaded \in 0..Len(selectedFiles)
    /\ Len(msgs) + uploaded + 1 <= MaxMsgs
    /\ storeCalls < MaxCalls
    /\ sendMessageBody(Viewer, windowChatId, newMessage, trim(newMessage), Null,
                       Len(selectedFiles), uploaded, 0)
    /\ newMessage' = ComposerAfter(menu'.failed, newMessage)
    /\ selectedFiles' = ComposerAfter(menu'.failed, selectedFiles)
    /\ UNCHANGED <<windowChatId, chatsChannel>>
    /\ UNCHANGED <<members, nextChatId, pc, rets, lateCreate>>
    /\ UNCHANGED <<dirVars, convVars, notifVars, streamVars, deviceVars>>

\* ------------------------------------- deltas delivered more than once
\* Every delta of the drawn histories was delivered.
AllDelivered == \A c \in DOMAIN pending : pending[c] = <<>>

\* No delta is left of drawn histories of at most one delta.
WindowTurn == AllDelivered /\ Len(applied) <= 2

\* The delta of chat c the channel delivered last.
LastDelivered(c) == start.pending[c][Len(start.pending[c]) - Len(pending[c])]

\* The channel delivers the delta of chat c it delivered last once more,
\* before any other; applied notes the second delivery as 0 - c.
redeliverDelta(c) ==
    /\ c \in DOMAIN pending
    /\ Len(pending[c]) < Len(start.pending[c])
    /\ applied # <<>> /\ applied[Len(applied)] = c
    /\ held' = useRealtimeChats(held, LastDelivered(c))
    /\ applied' = Append(applied, 0 - c)
    /\ UNCHANGED <<pending, start, showArchived, chatEvents, fetches>>
    /\ UNCHANGED <<storeVars, notifVars, msgVars, streamVars, deviceVars, sessionVars>>

\* The window's channel delivers the INSERT event it delivered last once
\* more; the handler calls fetchMessages again.
redeliverMessageInsert ==
    /\ subscribed
    /\ delivered > 0
    /\ Len(messageFetches) < MaxInFlight
    /\ messageFetches' = Append(messageFetches, fetchMessagesQuery(Viewer, OpenChat))
    /\ UNCHANGED <<subscribed, delivered, awaiting, invoked, messages>>
    /\ UNCHANGED <<storeVars, dirVars, convVars, notifVars, msgVars, deviceVars, sessionVars>>

\* ------------------------------------- the transport of the chats channel
\* The socket of the realtime client drops: the channel receives nothing.
transportDrops ==
    /\ chatsChannel = "joined"
    /\ chatsChannel' = "down"
    /\ UNCHANGED <<windowChatId, newMessage, selectedFiles>>
    /\ UNCHANGED <<storeVars, dirVars, convVars, notifVars, msgVars, streamVars, deviceVars>>

\* The client reconnects and rejoins the channel. The hook passes no status
\* callback to subscribe(), so nothing of the directory runs.
transportReconnects ==
    /\ chatsChannel = "down"
    /\ chatsChannel' = "joined"
    /\ UNCHANGED <<windowChatId, newMessage, selectedFiles>>
    /\ UNCHANGED <<storeVars, dirVars, convVars, notifVars, msgVars, streamVars, deviceVars>>

\* ------------------------------------- the chats channel across renders
\* ChatList renders again (a state of it changed, such as the search text).
\* handleChatUpdate and handleChatDelete are new functions in every render
\* and are the dependencies of the hook's effect: its cleanup removes the
\* channel and its body subscribes a new one, which is not joined yet.
rerenderChatList ==
    /\ chatsChannel = "joined"
    /\ chatsChannel' = "joining"
    /\ UNCHANGED <<windowChatId, newMessage, selectedFiles>>
    /\ UNCHANGED <<storeVars, dirVars, convVars, notifVars, msgVars, streamVars, deviceVars>>

\* The server acknowledges the subscription of the new channel.
channelJoined ==
    /\ chatsChannel = "joining"
    /\ chatsChannel' = "joined"
    /\ UNCHANGED <<windowChatId, newMessage, selectedFiles>>
    /\ UNCHANGED <<storeVars, dirVars, convVars, notifVars, msgVars, streamVars, deviceVars>>


\* ------------------------------------------------ switching the open chat
\* onChatSelect(c) in the chat list: TelegramApp passes the new chatId to the
\* same ChatWindow, whose effect on [chatId, user] removes the channel of the
\* chat shown before, calls fetchMessages for c and subscribes the channel of
\* c. The messages state is not touched, and calls in flight are not aborted.
selectChat(c) ==
    /\ c \in DOMAIN chats
    /\ IsMember(Viewer, c)
    /\ c # windowChatId
    /\ Len(messageFetches) < MaxFetches
    /\ windowChatId' = c
    /\ messageFetches' = Append(messageFetches, fetchMessagesQuery(Viewer, c))
    /\ UNCHANGED <<subscribed, delivered, awaiting, invoked, messages>>
    /\ UNCHANGED <<newMessage, selectedFiles, chatsChannel>>
    /\ UNCHANGED <<storeVars, dirVars, convVars, notifVars, msgVars, deviceVars>>

\* ------------------------------------------------------- specifications
Init == InitStore /\ DirIdle /\ ConvIdle /\ NotifIdle /\ MsgIdle /\ StreamIdle /\ DeviceIdle /\ SessionIdle

Next ==
    \/ \E u \in Online, o \in Users : RpcLookup(u, o)
    \/ \E u \in Online : RpcInsert(u)
    \/ \E u \in Online : createPersonalChatDone(u)
    \/ \E u \in Online : \E sel \in Selections(u, MaxClicks) : \E pub \in BOOLEAN :
          createGroupChat(u, sel, pub)
    \/ \E u \in Online : createGroupMembers(u)
    \/ \E u \in Online : \E sel \in Selections(u, MaxClicks) : createChatChat(u, sel)
    \/ \E u \in Online : createChatSelf(u)
    \/ \E u \in Online : createChatOthers(u)
    \/ \E u \in Online : \E c \in 1..MaxChats : deleteChat(u, c)
    \/ \E u \in Online : \E c \in 1..MaxChats : handleLeaveChat(u, c)

\* The store and every client command, the steps of different users interleaved.
Spec == Init /\ [][Next]_vars

NextRace ==
    \/ \E u \in Online, o \in Users : RpcLookup(u, o)
    \/ \E u \in Online : RpcInsert(u)
    \/ \E u \in Online : createPersonalChatDone(u)

\* Only find_or_create_personal_chat calls, their statements interleaved.
SpecRace == Init /\ [][NextRace]_vars

NextSeq ==
    \/ \E u \in Online, o \in Users : RpcCall(u, o)
    \/ \E u \in Online : createPersonalChatDone(u)

\* Only find_or_create_personal_chat calls, one after the other.
SpecSeq == Init /\ [][NextSeq]_vars

\* The viewer's chat directory mounted over the shared store: the first
\* fetchChats is on its way.
InitDir ==
    /\ SeedStore
    /\ held = <<>>
    /\ showArchived = FALSE
    /\ chatEvents = <<>>
    /\ fetches = <<fetchChatsQuery(SeedChats, Viewer, FALSE)>>
    /\ ConvIdle /\ NotifIdle /\ MsgIdle /\ StreamIdle /\ DeviceIdle /\ SessionIdle

NextDir ==
    \/ \E i \in 1..MaxInFlight : fetchChatsDone(i)
    \/ \E v \in BOOLEAN : setShowArchived(v)
    \/ deliverChatEvent
    \/ \E u \in Online : \E c \in 1..MaxChats : handlePinChat(u, c)
    \/ \E u \in Online : \E c \in 1..MaxChats : handleArchiveChat(u, c)

\* The chat directory of the viewer, its menu, and the menus of other clients.
SpecDir == InitDir /\ [][NextDir]_vars

\* A held list and per-chat histories of deltas, drawn.
InitConv ==
    /\ SeedStore
    /\ \E hs \in ConvHistories :
          /\ pending = hs
          /\ held = ConvHeld(hs)
          /\ start = [held |-> ConvHeld(hs), pending |-> hs]
    /\ applied = <<>>
    /\ showArchived = FALSE
    /\ chatEvents = <<>>
    /\ fetches = <<>>
    /\ NotifIdle /\ MsgIdle /\ StreamIdle /\ DeviceIdle /\ SessionIdle

NextConv == \E c \in 1..MaxChats : deliverDelta(c)

\* The deltas of the drawn histories delivered in every order that keeps each
\* chat's own order.
SpecConv == InitConv /\ [][NextConv]_vars

\* The notification centre mounted: the first fetchNotifications is on its way.
InitNotif ==
    /\ InitStore /\ DirIdle /\ ConvIdle /\ MsgIdle /\ StreamIdle /\ DeviceIdle /\ SessionIdle
    /\ notifs = <<>>
    /\ feed = <<>>
    /\ unreadCount = 0
    /\ marking = <<>>
    /\ notifFetches = <<fetchNotificationsQuery(<<>>)>>

NextNotif ==
    \/ notificationInserted
    \/ \E i \in 1..MaxInFlight : fetchNotificationsDone(i)
    \/ \E i \in 1..MaxNotifs : markAsReadClick(i)
    \/ \E j \in 1..MaxMarks : \E ok \in BOOLEAN : markAsReadDone(j, ok)
    \/ \E ok \in BOOLEAN : markAllAsRead(ok)

\* The notification centre of the viewer.
SpecNotif == InitNotif /\ [][NextNotif]_vars

\* Chat windows over the shared store; no chat directory is subscribed.
InitMsg ==
    /\ SeedStore /\ DirIdle /\ ConvIdle /\ NotifIdle /\ StreamIdle /\ DeviceIdle /\ SessionIdle
    /\ msgs = <<>>
    /\ clock = FirstShared + 1
    /\ menu = [op |-> "none"]
    /\ storeCalls = 0

NextMsg ==
    \/ \E u \in Online : \E c \in 1..MaxChats : sendMessage(u, c)
    \/ \E u \in Online : \E i \in 1..MaxMsgs : messageMenuDelete(u, i)

\* Sending messages and the message menu.
SpecMsg == InitMsg /\ [][NextMsg]_vars

NextDel ==
    \/ \E u \in Online : \E c \in 1..MaxChats : sendMessage(u, c)
    \/ \E u \in Online : \E c \in 1..MaxChats : handleDeleteChatMembers(u, c)
    \/ \E u \in Online : handleDeleteChatMessages(u)
    \/ \E u \in Online : \E failed \in BOOLEAN : handleDeleteChatRow(u, failed)
    \/ \E u \in Online : handleDeleteChatDone(u)

\* Sending messages and the delete-chat command over the shared store.
SpecDel == InitMsg /\ [][NextDel]_vars

NextCap ==
    \/ \E u \in Online : \E sel \in Selections(u, MaxClicks) : createChatChat(u, sel)
    \/ \E u \in Online : createChatSelf(u)
    \/ \E u \in Online : createChatOthers(u)
    \/ \E u \in Online : \E c \in 1..MaxChats : sendMessage(u, c)
    \/ \E u \in Online : \E i \in 1..MaxMsgs : messageMenuDelete(u, i)
    \/ \E u \in Online : \E i \in 1..MaxMsgs : messageMenuPin(u, i)

\* The four capability-gated actions as the clients offer them: adding
\* members to a chat, sending a message, deleting and pinning a message.
SpecCap == Init /\ [][NextCap]_vars

NextAuth ==
    \/ \E u \in Online : \E c \in 1..MaxChats : deleteChat(u, c)
    \/ \E u \in Online : \E c \in 1..MaxChats : \E s \in Users : messagesInsert(u, c, s)
    \/ \E u \in Online : \E c \in 1..MaxChats : \E f \in {"is_pinned", "is_archived"} :
          \E v \in BOOLEAN : chatsUpdate(u, c, f, v)
    \/ \E u \in Online : \E c \in 1..MaxChats : \E t \in Users :
          \E r \in {"admin", "member"} : chatMembersInsert(u, c, t, r)

\* Requests of signed-in users at the store, for chats they are in or not.
SpecAuth == InitMsg /\ [][NextAuth]_vars

NextIns ==
    \/ \E u \in Online : \E c \in 1..MaxChats : sendMessage(u, c)
    \/ \E u \in Online : \E c \in 1..MaxChats : deleteChat(u, c)
    \/ \E u \in Online : \E c \in 1..MaxChats : \E s \in Users : messagesInsert(u, c, s)

\* Message inserts, by chat windows and by direct requests, while users leave.
SpecIns == InitMsg /\ [][NextIns]_vars

NextSend ==
    \/ \E u \in Online : \E c \in 1..MaxChats : \E typed \in Inputs :
          \E files \in 0..MaxFiles : \E uploaded \in 0..MaxFiles :
             handleFormSubmit(u, c, typed, files, uploaded)
    \/ \E u \in Online : \E c \in 1..MaxChats : \E stored \in BOOLEAN :
          \E files \in 0..MaxFiles : \E uploaded \in 0..MaxFiles :
             uploadVoiceMessage(u, c, stored, files, uploaded)

\* The composer of the chat windows: texts, selected files, voice recordings.
SpecSend == InitMsg /\ [][NextSend]_vars

NextGroup ==
    \/ \E groupName \in Inputs : \E sel \in Selections(Viewer, MaxClicks) :
          \E groupAvatar \in {"none", "stored", "failed"} : \E isPublicGroup \in BOOLEAN :
             createGroup(Viewer, groupName, sel, groupAvatar, isPublicGroup)
    \/ createGroupMembers(Viewer)

\* The group form of the viewer's new-chat dialog, with its name and avatar
\* fields.
SpecGroup == Init /\ [][NextGroup]_vars

NextStream ==
    \/ subscribeMessages
    \/ \E eventType \in MessageEvents : receiveMessageEvent(eventType)
    \/ \E n \in 1..MaxStream : \E eventType \in MessageEvents :
          profileFetched([seq |-> n, eventType |-> eventType])
    \/ unsubscribeMessages

\* The message subscription of one chat view, from its setup to its cleanup.
SpecStream == InitMsg /\ [][NextStream]_vars

\* The viewer opens the chat: fetchMessages is called and the channel set up.
InitLog ==
    /\ SeedStore /\ DirIdle /\ ConvIdle /\ NotifIdle /\ DeviceIdle /\ SessionIdle
    /\ msgs = <<>>
    /\ clock = FirstShared + 1
    /\ menu = [op |-> "none"]
    /\ storeCalls = 0
    /\ subscribed = TRUE
    /\ delivered = 0
    /\ awaiting = {}
    /\ invoked = <<>>
    /\ messages = <<>>
    /\ messageFetches = <<<<>>>>

NextLog ==
    \/ \E u \in Online : \E at \in 1..MaxStamp : messageCommitted(u, at)
    \/ handleMessageInsert
    \/ \E i \in 1..MaxInFlight : fetchMessagesDone(i)

\* The message log of the open chat window while members send messages.
SpecLog == InitLog /\ [][NextLog]_vars

NextClock ==
    \E u \in Online : \E c \in 1..MaxChats : \E t \in 1..MaxTime :
        sendMessageOwnClock(u, c, t)

\* Members sending from their own devices into the shared chats.
SpecClock == InitMsg /\ [][NextClock]_vars

NextPresence ==
    \/ mountTracker
    \/ handleVisibilityChange
    \/ heartbeat
    \/ handleBeforeUnload
    \/ cleanupTracker
    \/ \E i \in 1..MaxInFlight : applyPresence(i)

\* The presence tracker of the viewer's page and the viewer's profile row.
SpecPresence == Init /\ [][NextPresence]_vars

\* The viewer's chat directory mounted over a store of saved chats only.
InitJoin ==
    /\ InitStore
    /\ held = <<>>
    /\ showArchived = FALSE
    /\ chatEvents = <<>>
    /\ fetches = <<fetchChatsQuery(SavedChats, Viewer, FALSE)>>
    /\ ConvIdle /\ NotifIdle /\ MsgIdle /\ StreamIdle /\ DeviceIdle /\ SessionIdle

NextJoin ==
    \/ \E i \in 1..MaxInFlight : fetchChatsDone(i)
    \/ \E v \in BOOLEAN : setShowArchived(v)
    \/ deliverChatEvent
    \/ \E u \in Users \ {Viewer} : RpcCreateAnnounced(u, Viewer)
    \/ \E c \in 1..MaxChats : handlePinChat(Viewer, c)

\* The viewer's chat directory while other users open personal chats with the
\* viewer.
SpecJoin == InitJoin /\ [][NextJoin]_vars

NextGone ==
    \/ \E u \in Online : \E at \in 1..MaxStamp : messageCommitted(u, at)
    \/ handleMessageInsert
    \/ \E i \in 1..MaxInFlight : fetchMessagesDone(i)
    \/ \E u \in Online : \E i \in 1..MaxMsgs : messagesDelete(u, i)

\* The message log of the open chat window while members send messages and
\* delete messages of their own.
SpecGone == InitLog /\ [][NextGone]_vars

\* The viewer's chat directory mounted over the shared store, its entries
\* with names: the first fetchChats is on its way.
InitNames ==
    /\ SeedStore
    /\ held = <<>>
    /\ showArchived = FALSE
    /\ chatEvents = <<>>
    /\ fetches = <<fetchChatsNamed(SeedChats, Viewer, FALSE)>>
    /\ ConvIdle /\ NotifIdle /\ MsgIdle /\ StreamIdle /\ DeviceIdle /\ SessionIdle

NextNames ==
    \/ \E i \in 1..MaxInFlight : fetchChatsDone(i)
    \/ deliverChatEvent
    \/ \E u \in Online : \E c \in 1..MaxChats :
          \E field \in {"is_pinned", "is_archived"} : MenuUpdateNamed(u, c, field)

\* The names in the viewer's chat directory while members pin and archive.
SpecNames == InitNames /\ [][NextNames]_vars

NextComposer ==
    \/ \E typed \in Inputs : typeMessage(typed)
    \/ handleFileSelect
    \/ \E uploaded \in 0..MaxFiles : submitComposer(uploaded)
    \/ deleteChat(Viewer, FirstShared)

\* The composer of the viewer's window on the first shared chat, which the
\* viewer may leave while the window is open.
SpecComposer == InitMsg /\ [][NextComposer]_vars

\* A held list and per-chat histories of deltas, drawn, and the window of the
\* open chat with its first fetchMessages on its way.
InitTwice ==
    /\ SeedStore
    /\ \E hs \in ConvHistories :
          /\ pending = hs
          /\ held = ConvHeld(hs)
          /\ start = [held |-> ConvHeld(hs), pending |-> hs]
    /\ applied = <<>>
    /\ showArchived = FALSE
    /\ chatEvents = <<>>
    /\ fetches = <<>>
    /\ NotifIdle /\ DeviceIdle /\ SessionIdle
    /\ msgs = <<>>
    /\ clock = FirstShared + 1
    /\ menu = [op |-> "none"]
    /\ storeCalls = 0
    /\ subscribed = TRUE
    /\ delivered = 0
    /\ awaiting = {}
    /\ invoked = <<>>
    /\ messages = <<>>
    /\ messageFetches = <<<<>>>>

\* The directory and the window share no state: the events of the window are
\* taken in the runs of at most one delta, after it.
NextTwice ==
    \/ \E c \in 1..MaxChats : deliverDelta(c)
    \/ \E c \in 1..MaxChats : redeliverDelta(c)
    \/ WindowTurn /\ messageCommitted(Viewer, 1)
    \/ WindowTurn /\ handleMessageInsert
    \/ WindowTurn /\ redeliverMessageInsert
    \/ WindowTurn /\ \E i \in 1..MaxInFlight : fetchMessagesDone(i)

\* Chat deltas and message events, each delivered once or more than once.
SpecTwice == InitTwice /\ [][NextTwice]_vars

\* The viewer's chat directory over the shared store, its list loaded.
InitLoaded ==
    /\ SeedStore
    /\ held = fetchChatsQuery(SeedChats, Viewer, FALSE)
    /\ showArchived = FALSE
    /\ chatEvents = <<>>
    /\ fetches = <<>>
    /\ ConvIdle /\ NotifIdle /\ MsgIdle /\ StreamIdle /\ DeviceIdle /\ SessionIdle

NextDrop ==
    \/ transportDrops
    \/ transportReconnects
    \/ deliverChatEvent
    \/ \E c \in 1..MaxChats : handlePinChat("u2", c)
    \/ \E c \in 1..MaxChats : handleArchiveChat("u2", c)

\* The loaded directory while another member pins and archives and the
\* transport of the chats channel drops and comes back.
SpecDrop == InitLoaded /\ [][NextDrop]_vars

NextRender ==
    \/ rerenderChatList
    \/ channelJoined
    \/ deliverChatEvent
    \/ \E c \in 1..MaxChats : handlePinChat("u2", c)
    \/ \E c \in 1..MaxChats : handleArchiveChat("u2", c)

\* The loaded directory, rendering again and again, while another member pins
\* and archives.
SpecRender == InitLoaded /\ [][NextRender]_vars


NextOverlap ==
    \/ \E u \in Online : \E at \in 1..MaxStamp : messageCommitted(u, at)
    \/ handleMessageInsertWithin(MaxFetches)
    \/ \E i \in 1..MaxFetches : fetchMessagesDone(i)

\* The message log of the open chat window, with more than one fetchMessages
\* call in flight: the first of the effect and those of the INSERT handler.
SpecOverlap == InitLog /\ [][NextOverlap]_vars


NextSwitch ==
    \/ \E u \in Online : \E c \in 1..MaxChats : messageCommittedIn(u, c, 1)
    \/ \E c \in 1..MaxChats : selectChat(c)
    \/ \E i \in 1..MaxFetches : fetchMessagesDone(i)

\* One chat window whose chat the viewer changes in the chat list while
\* members' messages are committed in the viewer's chats.
SpecSwitch == InitLog /\ [][NextSwitch]_vars


NextFlicker ==
    \/ mountTracker
    \/ handleVisibilityChangeWithin(MaxFetches)
    \/ \E i \in 1..MaxFetches : applyPresence(i)

\* The presence tracker of a page that is hidden and shown again while the
\* write of the signal before is still on its way.
SpecFlicker == Init /\ [][NextFlicker]_vars

\* ------------------------------------------------------------- claims
\* The chats of kind personal in which both u and o hold a membership.
PersonalChatsOf(u, o) ==
    {c \in DOMAIN chats :
        chats[c].chat_type = "personal" /\ u \in MembersOf(c) /\ o \in MembersOf(c)}

\* C1: when two distinct users call find_or_create_personal_chat toward each
\* other with their statements interleaved, both calls return the same chat
\* id and exactly one personal chat holds memberships of both.
C1_ConcurrentCallsAgree ==
    \A u \in Users : \A o \in Users \ {u} :
        (/\ pc[u].op = "rpcDone" /\ pc[u].other = o
         /\ pc[o].op = "rpcDone" /\ pc[o].other = u)
        => (/\ pc[u].status = "ok" /\ pc[o].status = "ok"
            /\ pc[u].id = pc[o].id
            /\ Cardinality(PersonalChatsOf(u, o)) = 1)

\* C2: sequential find_or_create_personal_chat calls for one unordered pair,
\* by either of its users, all return the same chat id, and no call after the
\* first one inserts a chat row or a membership row.
C2_SequentialCallsIdempotent ==
    \A p \in Pairs :
        /\ Cardinality({r[2] : r \in rets[p]}) <= 1
        /\ p \notin lateCreate
        /\ rets[p] # {} => \E u \in p : \E o \in p \ {u} :
                               {r[2] : r \in rets[p]} = PersonalChatsOf(u, o)

\* Both users of a pair have called, one after the other.
C2_Witness ==
    \E p \in Pairs : {r[1] : r \in rets[p]} = p

\* C3: at most one chat of kind personal has a given unordered pair of users
\* as its members.
C3_OnePersonalChatPerPair ==
    \A p \in Pairs :
        Cardinality({c \in DOMAIN chats :
            chats[c].chat_type = "personal" /\ MembersOf(c) = p}) <= 1

\* C4: every chat of kind personal has exactly two memberships.
C4_PersonalHasTwoMembers ==
    \A c \in DOMAIN chats :
        chats[c].chat_type = "personal" => MemberCount(c) = 2

\* C5: every existing chat has an admin membership, and its creator holds one
\* from the moment the chat row exists.
C5_CreatorIsAdmin ==
    \A c \in DOMAIN chats :
        AdminsOf(c) # {} /\ chats[c].created_by \in AdminsOf(c)

C7_PinnedFirst ==
    \A i \in 1..Len(held) : \A j \in 1..Len(held) :
        (i < j /\ held[j].is_pinned) => held[i].is_pinned

RECURSIVE ApplyDeltas(_, _)
ApplyDeltas(list, ds) ==
    IF ds = <<>> THEN list
    ELSE ApplyDeltas(useRealtimeChats(list, Head(ds)), Tail(ds))

RECURSIVE Flatten(_, _)
Flatten(hs, ids) ==
    IF ids = <<>> THEN <<>>
    ELSE hs[Head(ids)] \o Flatten(hs, Tail(ids))

\* C8: the deltas of a set of per-chat histories, delivered in any order that
\* keeps each chat's own order, leave the same ordered list as delivering
\* them chat after chat.
C8_OrderIndependent ==
    (start.pending # <<>> /\ AllDelivered) =>
        held = ApplyDeltas(start.held, Flatten(start.pending, IdSeq(DOMAIN start.pending)))

\* Deltas of several chats were delivered interleaved, not chat after chat,
\* an update and a delete among them, and the list changed.
C8_Witness ==
    /\ start.pending # <<>>
    /\ AllDelivered
    /\ \E i \in 1..Len(applied) : \E j \in 1..Len(applied) : i < j /\ applied[i] > applied[j]
    /\ \E c \in DOMAIN start.pending : \E k \in 1..Len(start.pending[c]) :
          start.pending[c][k].eventType = "UPDATE"
    /\ \E c \in DOMAIN start.pending : \E k \in 1..Len(start.pending[c]) :
          start.pending[c][k].eventType = "DELETE"
    /\ held # start.held
    /\ held # <<>>

\* C9: a markAsRead(n) that completes lowers the unread counter by exactly one
\* when n is unread in the feed, and leaves it unchanged when n is read
\* already.
C9_MarkAsReadCountsOnce ==
    [][\A j \in 1..Len(marking) : \A ok \in BOOLEAN :
          markAsReadDone(j, ok) =>
              IF \E i \in 1..Len(feed) : feed[i].id = marking[j] /\ ~feed[i].is_read
              THEN unreadCount' = unreadCount - 1
              ELSE unreadCount' = unreadCount]_vars

\* C10: a Delete attempt in the message menu by a user who is no admin of the
\* chat, on a message another user sent, is denied, leaves the messages as
\* they are and makes no store call.
C10_MemberCannotDeleteOthers ==
    [][\A u \in Online : \A i \in 1..Len(msgs) :
          (/\ messageMenuDelete(u, i)
           /\ ~IsOwn(u, msgs[i])
           /\ u \notin AdminsOf(msgs[i].chat_id))
          => (/\ menu'.outcome = "denied"
              /\ msgs' = msgs
              /\ storeCalls' = storeCalls)]_vars

\* A member who is no admin went for Delete on a message of another user.
C10_Witness ==
    /\ menu.op = "delete"
    /\ ~IsOwn(menu.user, msgs[menu.msg])
    /\ menu.user \notin AdminsOf(msgs[menu.msg].chat_id)
    /\ menu.user \in MembersOf(msgs[menu.msg].chat_id)

\* C11: a delete-chat command of a user who did not create the chat is denied:
\* the client reports the failure, the chat row still exists and the caller's
\* membership is as before.
C11_NonCreatorDeleteDenied ==
    \A u \in Users :
        (pc[u].op = "deleteChatDone" /\ pc[u].creator # u)
        => (/\ pc[u].status = "error"
            /\ pc[u].chat \in DOMAIN chats
            /\ IsMember(u, pc[u].chat))

\* C12: a delete-chat command of the chat's creator that got through succeeds,
\* and afterwards the chat row no longer exists.
C12_CreatorDeleteSucceeds ==
    \A u \in Users :
        (pc[u].op = "deleteChatDone" /\ pc[u].creator = u /\ pc[u].status = "ok")
        => pc[u].chat \notin DOMAIN chats

\* What the capability rule gives a user in a chat: admins everything, other
\* members what the flag of their membership says.
CapabilityRule(u, c, flag) ==
    \/ u \in AdminsOf(c)
    \/ IsMember(u, c) /\ DefaultFlags[flag]

\* C13: each of the four capability-gated actions of a chat member is allowed
\* when the role is admin and, for role member, exactly when the matching
\* flag of the membership is true.
C13_CapabilityTable ==
    [][/\ \A u \in Online : \A c \in DOMAIN chats :
            sendMessage(u, c) =>
                ((msgs' # msgs) <=> CapabilityRule(u, c, "can_send_messages"))
       /\ \A u \in Online :
            (createChatOthers(u) /\ IsMember(u, pc[u].chat)) =>
                ((members' # members) <=> CapabilityRule(u, pc[u].chat, "can_add_members"))
       /\ \A u \in Online : \A i \in 1..Len(msgs) :
            (messageMenuDelete(u, i) /\ ~IsOwn(u, msgs[i])) =>
                ((menu'.outcome = "invoked")
                    <=> CapabilityRule(u, msgs[i].chat_id, "can_delete_messages"))
       /\ \A u \in Online : \A i \in 1..Len(msgs) :
            messageMenuPin(u, i) =>
                ((menu'.outcome = "invoked")
                    <=> CapabilityRule(u, msgs[i].chat_id, "can_pin_messages"))]_vars


\* C14: a user without a membership in a chat that is no public channel is
\* denied everything on it: the store returns none of its messages to them,
\* and their message insert, their update of a chat flag and their insert of
\* a membership row, for themself or for another user, change nothing.
C14_NoMembershipDeniesAll ==
    [][\A u \in Online : \A c \in DOMAIN chats :
          (~IsMember(u, c) /\ chats[c].chat_type # "channel") =>
             /\ messagesSelect(u, c) = <<>>
             /\ \A s \in Users : messagesInsert(u, c, s) => msgs' = msgs
             /\ \A f \in {"is_pinned", "is_archived"} : \A v \in BOOLEAN :
                   chatsUpdate(u, c, f, v) => chats' = chats
             /\ \A t \in Users : \A r \in {"admin", "member"} :
                   chatMembersInsert(u, c, t, r) => members' = members]_vars


\* C15: whenever a message row comes into existence, the caller of the insert
\* holds a membership in the row's chat at that moment and the row's sender_id
\* is the caller.
C15_SenderIsMemberCaller ==
    [][\A u \in Online : \A c \in 1..MaxChats :
          /\ \A s \in Users :
                (messagesInsert(u, c, s) /\ msgs' # msgs) =>
                   /\ IsMember(u, c)
                   /\ msgs'[Len(msgs')].sender_id = u
                   /\ msgs'[Len(msgs')].chat_id = c
          /\ (sendMessage(u, c) /\ msgs' # msgs) =>
                /\ IsMember(u, c)
                /\ msgs'[Len(msgs')].sender_id = u
                /\ msgs'[Len(msgs')].chat_id = c]_vars

\* A message exists whose sender has left the chat since the insert.
C15_Witness ==
    \E i \in 1..Len(msgs) : ~IsMember(msgs[i].sender_id, msgs[i].chat_id)


\* C16: every message row sendMessage inserted has a text that is not empty or
\* a file reference that is not null, and a send of an empty or whitespace-only
\* text with no attachment reference and no selected file makes no call to the
\* store.
C16_NeverEmptyMessage ==
    /\ \A i \in 1..Len(msgs) :
          (msgs[i].content # Null /\ msgs[i].content # <<>>) \/ msgs[i].file_url # Null
    /\ (menu.op = "send" /\ menu.blank /\ ~menu.attachment /\ menu.files = 0)
          => menu.calls = 0

\* A whitespace-only send was dropped while the log holds a row with a file
\* and no text and a row with a text and no file.
C16_Witness ==
    /\ menu.op = "send" /\ menu.blank /\ ~menu.attachment /\ menu.files = 0
    /\ \E i \in 1..Len(msgs) : msgs[i].content = Null /\ msgs[i].file_url # Null
    /\ \E i \in 1..Len(msgs) : msgs[i].content # Null /\ msgs[i].file_url = Null


\* C17: createGroup with an empty or whitespace-only group name shows the
\* validation toast and issues no upload, no chats insert and no chat_members
\* insert.
C17_BlankNameRejected ==
    [][\A u \in Online :
          (pc'[u] # pc[u] /\ pc'[u].op \in {"toast", "createGroup"} /\ pc'[u].blankName) =>
             /\ pc'[u].op = "toast" /\ pc'[u].title = "fill in all fields"
             /\ UNCHANGED <<chats, members, nextChatId, storeCalls>>]_vars

\* A submit with a blank name and users selected was answered by the toast,
\* after a group had been created with a name.
C17_Witness ==
    \E u \in Online :
        /\ pc[u].op = "toast" /\ pc[u].blankName /\ pc[u].selected > 0
        /\ \E c \in DOMAIN chats : chats[c].created_by = u /\ chats[c].is_group


\* C18: no callback of the message subscription is invoked after the
\* subscription was unsubscribed, the callbacks of handlers that were awaiting
\* the sender's profile at that moment included.
C18_NoCallbackAfterUnsubscribe ==
    \A i \in 1..Len(invoked) : invoked[i].live

\* C19: the callbacks of the topic are invoked in the order in which the
\* channel delivered their events.
C19_CallbacksInDeliveryOrder ==
    \A i, j \in 1..Len(invoked) : i < j => invoked[i].seq < invoked[j].seq


\* C20: the message log the open chat window holds is ordered by created_at
\* ascending in every state, also when the rows were inserted, and their
\* events delivered, in another order.
C20_LogOrdered ==
    \A i, j \in 1..Len(messages) :
        i < j => messages[i].created_at <= messages[j].created_at

\* The window holds all rows of the chat, of which a later one was committed
\* and announced before an earlier one.
C20_Witness ==
    /\ Len(messages) >= 2
    /\ Len(messages) = Len(msgs)
    /\ delivered = Len(msgs)
    /\ \E i, j \in 1..Len(msgs) : i < j /\ msgs[i].created_at > msgs[j].created_at


\* C21: the stored updated_at of a chat never decreases, however the sends of
\* the members, each writing the reading of its own device's clock, interleave.
C21_UpdatedAtNeverDecreases ==
    [][\A c \in DOMAIN chats : chats'[c].updated_at >= chats[c].updated_at]_vars


\* C22: last_seen of the profile row changes only in a write that takes
\* is_online from true to false: not in a write that finds the flag already
\* false, and not in a write that sets the flag true.
C22_LastSeenOnlyOnGoingOffline ==
    [][profile'.last_seen # profile.last_seen
          => (profile.is_online /\ ~profile'.is_online)]_vars


\* A presence write is sent in this step; LastSent is that write.
PresenceSent == Len(presencePending') > Len(presencePending)

LastSent == presencePending'[Len(presencePending')]

\* The writes the four signals send: offline when the page becomes hidden or
\* is unloaded, online when it becomes visible again or the interval fires on
\* a visible page.
SignalWrite(w) ==
    \/ ~w.is_online /\ w.cause = "hidden"
          /\ visibilityState = "visible" /\ visibilityState' = "hidden"
    \/ ~w.is_online /\ w.cause = "unload" /\ tracking /\ ~tracking'
    \/ w.is_online /\ w.cause = "visible"
          /\ visibilityState = "hidden" /\ visibilityState' = "visible"
    \/ w.is_online /\ w.cause = "heartbeat" /\ w.visible
          /\ visibilityState = "visible" /\ UNCHANGED <<visibilityState, tracking>>

\* The writes of the effect itself: online when it is set up, offline in its
\* cleanup.
EffectWrite(w) ==
    \/ w.is_online /\ w.cause = "mount" /\ ~tracking /\ tracking'
    \/ ~w.is_online /\ w.cause = "teardown" /\ tracking /\ ~tracking'

\* C25 as stated: every presence write is the one of a visibility-hidden,
\* page-unload, visibility-restored or visible-heartbeat signal, every change
\* of the page's visibility sends its write, and a heartbeat on a hidden page
\* sends none.
C25_OnlySignalsWrite ==
    [][/\ PresenceSent => SignalWrite(LastSent)
       /\ visibilityState' # visibilityState => PresenceSent]_vars

\* C25 amended: the writes are those of the four signals and, besides, online
\* when the tracker is set up and offline when it is torn down; a heartbeat on
\* a hidden page sends none.
C25_SignalsAndEffectWrite ==
    [][/\ PresenceSent => (SignalWrite(LastSent) \/ EffectWrite(LastSent))
       /\ visibilityState' # visibilityState => PresenceSent]_vars

\* The page is hidden, the write of the hidden signal has been applied and
\* the tracker, its interval included, is still running.
C25_Witness ==
    /\ tracking
    /\ visibilityState = "hidden"
    /\ ~profile.is_online /\ profile.last_seen # <<>>
    /\ presencePending = <<>>


\* C23: when createGroup has made its membership insert for the group of
\* creator u with the selected users, the store holds the admin row of u and
\* a member row of every selected user (what the group's appearing in their
\* directories, and its pinning, rest on).
C23_GroupHasItsMembers ==
    [][\A u \in Online :
          createGroupMembers(u) =>
             LET c == pc[u].chat
             IN /\ CopiesIn(MemberRow(c, u, "admin"), members') = 1
                /\ \A k \in 1..Len(pc[u].sel) :
                      CopiesIn(MemberRow(c, pc[u].sel[k], "member"), members') = 1]_vars


\* C24: a command the store rejected, or left without a row to act on, is
\* reported as a failure: delete-chat ends with its success message only if
\* each of its three delete steps removed its rows, so that the chat, its
\* memberships and its messages are gone.
C24_FilteredStepIsReported ==
    \A u \in Users :
        (pc[u].op = "deleteChatDone" /\ pc[u].status = "ok") =>
            /\ pc[u].chat \notin DOMAIN chats
            /\ MembersOf(pc[u].chat) = {}
            /\ \A i \in 1..Len(msgs) : msgs[i].chat_id # pc[u].chat

\* C26: when the chats channel hands the directory the INSERT event of a chat
\* the viewer is a member of, the held list has an entry of that chat after the
\* handler, with no other step and no fetchChats response on its way.
C26_InsertedChatIsHeld ==
    [][(/\ chatEvents # <<>>
        /\ chatEvents' = Tail(chatEvents)
        /\ fetches = <<>>
        /\ Head(chatEvents).eventType = "INSERT"
        /\ IsMember(Viewer, Head(chatEvents).new.id))
       => \E i \in 1..Len(held') : held'[i].id = Head(chatEvents).new.id]_vars

\* C27: while the chat is open, once every event of its messages has been
\* handled and no fetchMessages response is on its way, the displayed log
\* holds no message that was deleted from the store.
C27_DeletedMessageLeavesLog ==
    (subscribed /\ delivered = Len(msgs) /\ messageFetches = <<>>)
        => \A i \in 1..Len(messages) : \E j \in 1..Len(msgs) : msgs[j] = messages[i]

\* C28: once every chat event has been handled and no fetchChats response is
\* on its way, the view displays only entries whose archived flag is that of
\* the selected view: unarchived ones in the active view, archived ones in the
\* archived view.
C28_ViewMatchesArchivedFlag ==
    (chatEvents = <<>> /\ fetches = <<>>)
        => \A i \in 1..Len(filteredChats) : filteredChats[i].is_archived = showArchived

\* C29: every held entry of a personal chat with two participants carries the
\* display name and the avatar of the participant other than the viewer, also
\* after an update delta was merged into it.
C29_EntryShowsOtherParticipant ==
    \A i \in 1..Len(held) :
        (/\ held[i].chat_type = "personal" /\ ~held[i].is_group
         /\ OtherMembers(held[i].id, Viewer) # {})
        => \E o \in OtherMembers(held[i].id, Viewer) :
              /\ held[i].name = DisplayName(o)
              /\ held[i].avatar_url = AvatarUrl(o)

\* C30: the rows a call of sendMessage adds reference, of the selected files,
\* only those whose upload returned without error before the row was inserted;
\* a call in which an upload failed adds no row for that file, none for the
\* files after it and no main row.
C30_RowsOnlyForUploadedFiles ==
    [][LET new == SubSeq(msgs', Len(msgs) + 1, Len(msgs'))
       IN (menu'.op = "send" /\ Len(msgs') >= Len(msgs)) =>
             /\ \A i \in 1..Len(new) : \A k \in 1..(MaxFiles + 1) :
                   PublicUrl(k) = new[i].file_url => k <= menu'.uploads
             /\ menu'.uploads < menu'.files => Len(new) <= menu'.uploads]_vars

\* A send with two selected files of which the first was stored and the
\* second failed: the log ends with the row of the first file.
C30_Witness ==
    /\ menu.op = "send" /\ menu.files = 2 /\ menu.uploads = 1
    /\ Len(msgs) >= 1
    /\ PublicUrl(1) = msgs[Len(msgs)].file_url

\* C31: a call of sendMessage in which an upload returned and the insert that
\* followed was rejected makes no second upload and no second insert, ends
\* with the send-error toast, and leaves the typed text and the selected
\* files in the composer.
C31_FailedInsertKeepsComposer ==
    [][(storeCalls' # storeCalls /\ menu'.op = "send" /\ menu'.uploads >= 1
        /\ menu'.rows = 0) =>
          /\ menu'.failed
          /\ menu'.uploads = 1
          /\ storeCalls' = storeCalls + 2
          /\ msgs' = msgs
          /\ newMessage' = newMessage
          /\ selectedFiles' = selectedFiles]_vars

\* The viewer left the chat the window shows; the send of a text and two
\* files stored the first file and had its row rejected.
C31_Witness ==
    /\ menu.op = "send" /\ menu.failed /\ menu.uploads = 1 /\ menu.rows = 0
    /\ menu.files = 2 /\ ~menu.blank
    /\ Len(selectedFiles) = 2 /\ ~Blank(newMessage)

\* C40: a send submitted after a send that failed, the selected files still in
\* the composer, inserts no row for a file of which the failed send had
\* already inserted the row: the file at position k of selectedFiles, for k up
\* to the number of rows the failed send inserted.
C40_RetryInsertsOnlyUnsentFiles ==
    [][LET new == SubSeq(msgs', Len(msgs) + 1, Len(msgs'))
       IN (/\ menu.op = "send" /\ menu.failed
           /\ storeCalls' # storeCalls /\ menu'.op = "send"
           /\ Len(msgs') >= Len(msgs))
          => \A i \in 1..Len(new) : \A k \in 1..menu.rows :
                PublicUrl(k) # new[i].file_url]_vars

C33_ResyncAfterReconnect ==
    (chatsChannel = "joined" /\ chatEvents = <<>> /\ fetches = <<>>)
        => \A i \in 1..Len(held) :
              /\ held[i].id \in DOMAIN chats
              /\ held[i].is_pinned = chats[held[i].id].is_pinned
              /\ held[i].is_archived = chats[held[i].id].is_archived

\* C39: while the directory is mounted, every update the store makes to a chat
\* of the viewer reaches the chats channel as an event of that chat, which the
\* handler then applies.
C39_EveryEventReceived ==
    [][\A c \in DOMAIN chats :
          (c \in DOMAIN chats' /\ chats'[c] # chats[c] /\ IsMember(Viewer, c)) =>
             /\ Len(chatEvents') = Len(chatEvents) + 1
             /\ chatEvents'[Len(chatEvents')].new.id = c]_vars


\* C34: once every fetchMessages call in flight has completed and every INSERT
\* event has been handled, the displayed log equals what the store returns for
\* the open chat: an older response has not replaced a newer one.
C34_LatestFetchWins ==
    (messageFetches = <<>> /\ delivered = Len(msgs))
        => messages = fetchMessagesQuery(Viewer, OpenChat)


\* C35: with no fetchMessages call in flight, every message of the displayed
\* log belongs to the chat the window shows: the response of a call made for
\* the chat shown before has not replaced the log of the chat shown now.
C35_LogOfOpenChat ==
    messageFetches = <<>>
        => \A i \in 1..Len(messages) : messages[i].chat_id = windowChatId


\* C36: when the delete-chat command of a user who did not create the chat
\* has made its three store calls and the chat row is still there, the store
\* still holds the caller's membership in that chat.
C36_FailedDeleteKeepsMembership ==
    \A u \in Users :
        (/\ pc[u].op = "deleteChatDone"
         /\ pc[u].creator # u
         /\ pc[u].chat \in DOMAIN chats) => IsMember(u, pc[u].chat)


\* C37: once every presence write in flight has been applied, the stored flag
\* is that of the page's latest signal: offline while the page is hidden,
\* online while it is visible.
C37_WritesInIssueOrder ==
    (tracking /\ presencePending = <<>>)
        => (profile.is_online <=> visibilityState = "visible")


\* C38: in every state of the notification centre the unread counter is the
\* number of notifications of the held feed whose read flag is false.
C38_CounterCountsUnread == unreadCount = Unread(feed)

====
